---- MODULE Spec2Model ----
(***************************************************************************)
(* NarrativeEngine (engines/narrative.ts): episode / scene / act           *)
(* lifecycle, love graph with ripple effects, checkpoint-driven act        *)
(* advancement, nudge gate and cadence, plateau detection, telemetry.      *)
(*                                                                         *)
(* Numbers of the love graph are fixed-point: One (10000) stands for 1.0,  *)
(* so 0.4 is 4000 and a ripple of 10% of a delta is an exact integer for   *)
(* every delta the model draws (multiples of 0.01).  Character ids are     *)
(* integers whose order stands for the string order Array.sort() uses.     *)
(* A pair key `${a}-${b}` is the tuple <<a, b>>.                           *)
(***************************************************************************)
EXTENDS Integers, Sequences, FiniteSets, TLC

VARIABLES
    currentState,      \* this.currentState : StoryState | null
    exchangeCounter,   \* this.exchangeCounter
    telemetryBuffer,   \* this.telemetryBuffer
    nextEpisodeId,     \* source of the uuid of the next episode
    agentState,        \* what the last tick handed to executeBeatPlan
    ret,               \* what the last call returned (or threw)
    suspended,         \* the calls suspended at an await on a collaborator
    evaluationEngine,  \* the fields of the EvaluationEngine (engines/evaluation.ts)
    recommendation     \* what the last call of the EvaluationEngine returned

vars == <<currentState, exchangeCounter, telemetryBuffer, nextEpisodeId, agentState, ret,
          suspended, evaluationEngine, recommendation>>

\* the variables of the NarrativeEngine, and those of the EvaluationEngine
narrative == <<currentState, exchangeCounter, telemetryBuffer, nextEpisodeId, agentState, ret,
               suspended>>
evaluator == <<evaluationEngine, recommendation>>

----------------------------------------------------------------------------
(* Bounds of the model                                                      *)

MaxStoryTicks == 2
MaxCadenceTicks == 12
MaxGateTicks == 6
MaxBuffered == 1
MaxGateNudges == 1
MaxAsyncTicks == 7
MaxInFlight == 2
MaxStartTicks == 2
MaxEpisodes == 2
MaxTurnEnds == 2
MaxSnapshots == 5
MaxEvalExchange == 2
MaxLoopTicks == 5
MaxWindowTicks == 10

----------------------------------------------------------------------------
(* Numbers of the program                                                   *)

One == 10000
MajorCooldown == 6
RecoveryExchanges == 2
MaxRecentLines == 16

Null == [isNull |-> TRUE]

Last(s) == s[Len(s)]

Abs(x) == IF x < 0 THEN -x ELSE x

----------------------------------------------------------------------------
(* Static tables                                                            *)

NudgeTypes == {"raise_stakes", "comfort", "vulnerability", "recall", "aside",
               "tempo_up", "tempo_down"}

checkpoints ==
    { [type |-> "mutual_spark",      fromAct |-> 1, toAct |-> 2],
      [type |-> "explicit_conflict", fromAct |-> 2, toAct |-> 3],
      [type |-> "need_boundary",     fromAct |-> 3, toAct |-> 4],
      [type |-> "relational_choice", fromAct |-> 4, toAct |-> 5] }

actGates ==
    [a \in 1..5 |->
        CASE a = 1 -> [allowedNudges |-> {"comfort", "vulnerability", "recall", "tempo_down"},
                       blockedNudges |-> {"raise_stakes"}]
          [] a = 2 -> [allowedNudges |-> {"comfort", "vulnerability", "recall", "aside",
                                          "tempo_up", "raise_stakes"},
                       blockedNudges |-> {}]
          [] a = 3 -> [allowedNudges |-> {"raise_stakes", "vulnerability", "aside", "tempo_up"},
                       blockedNudges |-> {"comfort"}]
          [] a = 4 -> [allowedNudges |-> {"comfort", "vulnerability", "recall", "tempo_down"},
                       blockedNudges |-> {"raise_stakes"}]
          [] a = 5 -> [allowedNudges |-> {"comfort", "recall", "tempo_down"},
                       blockedNudges |-> {"raise_stakes", "aside"}]]

\* biasEffects of the nudge catalog: which components a type's descriptor sets
nudgeCatalog ==
    [t \in NudgeTypes |->
        CASE t = "raise_stakes"  -> [intensity |-> "major", comfort |-> FALSE, trust |-> FALSE, tension |-> TRUE]
          [] t = "comfort"       -> [intensity |-> "minor", comfort |-> TRUE,  trust |-> FALSE, tension |-> TRUE]
          [] t = "vulnerability" -> [intensity |-> "minor", comfort |-> FALSE, trust |-> TRUE,  tension |-> FALSE]
          [] t = "recall"        -> [intensity |-> "minor", comfort |-> TRUE,  trust |-> FALSE, tension |-> FALSE]
          [] t = "aside"         -> [intensity |-> "minor", comfort |-> FALSE, trust |-> FALSE, tension |-> TRUE]
          [] t = "tempo_up"      -> [intensity |-> "minor", comfort |-> FALSE, trust |-> FALSE, tension |-> TRUE]
          [] t = "tempo_down"    -> [intensity |-> "minor", comfort |-> TRUE,  trust |-> TRUE,  tension |-> FALSE]]

\* the actRestrictions of the catalog's descriptors: [2, 3, 4] for raise_stakes
\* and aside; the other descriptors have none, which leaves all five acts
actRestrictions ==
    [t \in NudgeTypes |-> IF t \in {"raise_stakes", "aside"} THEN {2, 3, 4} ELSE 1..5]

----------------------------------------------------------------------------
(* startEpisode                                                             *)

BaselinePair == [attraction |-> 1000, trust |-> 1000, tension |-> 2000, comfort |-> 1000]

\* the keys `${characters[i]}-${characters[j]}`, i < j, in listed order
PairKeys(characters) ==
    { <<characters[p[1]], characters[p[2]]>> :
        p \in { q \in (1..Len(characters)) \X (1..Len(characters)) : q[1] < q[2] } }

NoBias == [set |-> FALSE, exchangesLeft |-> 0]

\* the value of seed.characters[i] past the end of the list; Array.sort()
\* puts undefined after every string
Undefined == 1000

At(list, i) == IF i <= Len(list) THEN list[i] ELSE Undefined

NewSceneOfActOne(act, index) ==
    [act |-> 1, index |-> index, ended |-> FALSE, endedReason |-> "none",
     majorNudges |-> 0, minorNudges |-> 0]

NewScene(act, index) ==
    [act |-> act, index |-> index, ended |-> FALSE, endedReason |-> "none",
     majorNudges |-> 0, minorNudges |-> 0]

\* seed.callbacks || [] is the seed's own array; importSeedContext pushes the
\* seed's callbacks onto it once more when the seed carries importSeed
SeedCallbacks(seed) ==
    IF seed.importSeed THEN seed.callbacks \o seed.callbacks ELSE seed.callbacks

NewStoryState(seed, id) ==
    [isNull |-> FALSE,
     episode |-> [id |-> id,
                  actPath |-> <<1>>,
                  scenes |-> <<NewScene(1, 0)>>,
                  loveGraph |-> [k \in PairKeys(seed.characters) |-> BaselinePair]],
     currentScene |-> 1,
     spotlight |-> <<At(seed.characters, 1), At(seed.characters, 2)>>,
     recentLines |-> <<>>,
     callbacks |-> SeedCallbacks(seed),
     pendingNudges |-> <<>>,
     recoveryBias |-> NoBias,
     plateauCounter |-> 0,
     lastMajorNudgeExchange |-> 0]

NoNudge == [type |-> "none", intensity |-> "none"]

\* what a call gave back: ok is the boolean (or non-null) result, threw says the
\* call raised; nudge and isSafe recall the arguments of an applyNudge call,
\* characters the character list of a startEpisode call;
\* checks lists, for each line of a tick, the story state checkActAdvancement
\* saw, the checkpoint it returned and the plateau counter after the line
Ret(op, ok, threw, lines, transitions, events) ==
    [op |-> op, ok |-> ok, threw |-> threw, producedLines |-> lines,
     transitions |-> transitions, telemetryEvents |-> events,
     nudge |-> NoNudge, isSafe |-> FALSE, checks |-> <<>>, characters |-> <<>>]

StartEpisodeKeepsCounter(seed) ==
    /\ currentState' = NewStoryState(seed, nextEpisodeId)
    /\ nextEpisodeId' = nextEpisodeId + 1
    /\ ret' = [Ret("startEpisode", TRUE, FALSE, <<>>, <<>>, <<>>)
                  EXCEPT !.characters = seed.characters]
    /\ UNCHANGED <<exchangeCounter, telemetryBuffer, agentState, suspended>>

StartEpisode(seed) ==
    /\ currentState' = NewStoryState(seed, nextEpisodeId)
    /\ nextEpisodeId' = nextEpisodeId + 1
    /\ exchangeCounter' = 0
    /\ ret' = [Ret("startEpisode", TRUE, FALSE, <<>>, <<>>, <<>>)
                  EXCEPT !.characters = seed.characters]
    /\ UNCHANGED <<telemetryBuffer, agentState, suspended>>

----------------------------------------------------------------------------
(* Helpers of the engine                                                    *)

getCurrentAct(cs) == IF cs.isNull THEN 1 ELSE Last(cs.episode.actPath)

\* Array.prototype.sort() on the two-element spotlight, in place
SortPair(p) == IF p[2] < p[1] THEN <<p[2], p[1]>> ELSE p

Event(kind, cs, name, from, to) ==
    [kind |-> kind, episodeId |-> cs.episode.id, name |-> name, from |-> from, to |-> to,
     reason |-> "none"]

ClampBroken(x) == IF x < 0 THEN 0 ELSE x

\* Math.max(0, Math.min(1, x))
Clamp(x) == IF x < 0 THEN 0 ELSE IF x > One THEN One ELSE x

ClampPair(p) ==
    [attraction |-> Clamp(p.attraction), trust |-> Clamp(p.trust),
     tension |-> Clamp(p.tension), comfort |-> Clamp(p.comfort)]

\* text.toLowerCase() on one word
ToLower(w) ==
    CASE w = "Yes" -> "yes"
      [] w = "Need" -> "need"
      [] OTHER -> w

LowerWords(text) == { ToLower(text[i]) : i \in 1..Len(text) }

\* the words (lower case) that contain the keyword as a substring
WordsContaining(kw) ==
    CASE kw = "disagree" -> {"disagree"}
      [] kw = "wrong"    -> {"wrong"}
      [] kw = "need"     -> {"need", "needed"}
      [] kw = "want"     -> {"want", "wanted"}
      [] kw = "boundary" -> {"boundary"}
      [] kw = "choose"   -> {"choose"}
      [] kw = "together" -> {"together"}

\* text.toLowerCase().includes(kw) for a keyword without a space
Includes(text, kw) == LowerWords(text) \cap WordsContaining(kw) # {}

\* text.toLowerCase().includes('want us')
IncludesWantUs(text) ==
    \E i \in 1..(Len(text) - 1) : ToLower(text[i]) = "want" /\ ToLower(text[i + 1]) = "us"

\* Jaccard similarity > 0.8 of the two word sets
SimilarityAbove08(text1, text2) ==
    LET w1 == LowerWords(text1)
        w2 == LowerWords(text2)
    IN  10 * Cardinality(w1 \cap w2) > 8 * Cardinality(w1 \cup w2)

----------------------------------------------------------------------------
(* tick: the steps taken for each produced line                             *)

\* the SpokenLine built from a FinalLine, pushed on the rolling window
\* (slice(-16)); callbacks the line used are filtered out
processLineKeepsOldest(cs, finalLine) ==
    LET spokenLine == [speaker |-> finalLine.speaker, text |-> finalLine.text,
                       deltas |-> finalLine.deltas]
        pushed == Append(cs.recentLines, spokenLine)
        kept == IF Len(pushed) > MaxRecentLines
                THEN SubSeq(pushed, 1, MaxRecentLines)
                ELSE pushed
        cbs == IF finalLine.used_tokens # {}
               THEN SelectSeq(cs.callbacks, LAMBDA t : t \notin finalLine.used_tokens)
               ELSE cs.callbacks
    IN  [cs EXCEPT !.recentLines = kept, !.callbacks = cbs]

processLine(cs, finalLine) ==
    LET spokenLine == [speaker |-> finalLine.speaker, text |-> finalLine.text,
                       deltas |-> finalLine.deltas]
        pushed == Append(cs.recentLines, spokenLine)
        kept == IF Len(pushed) > MaxRecentLines
                THEN SubSeq(pushed, Len(pushed) - MaxRecentLines + 1, Len(pushed))
                ELSE pushed
        cbs == IF finalLine.used_tokens # {}
               THEN SelectSeq(cs.callbacks, LAMBDA t : t \notin finalLine.used_tokens)
               ELSE cs.callbacks
    IN  [cs EXCEPT !.recentLines = kept, !.callbacks = cbs]

AddDeltas(pair, d) ==
    [attraction |-> pair.attraction + d.attraction, trust |-> pair.trust + d.trust,
     tension |-> pair.tension + d.tension, comfort |-> pair.comfort + d.comfort]

\* rippleStrength = 0.1 of a delta
Ripple(x) == x \div 10

\* primaryDeltas.tension * rippleStrength * 0.5
JealousyTension(x) == x \div 20

\* primaryDeltas.tension * rippleStrength * 0.3
JealousyTrust(x) == (3 * x) \div 100

Compersion(pair, d) ==
    IF d.attraction > 0 \/ d.comfort > 0
    THEN [pair EXCEPT !.attraction = @ + Ripple(d.attraction),
                      !.comfort = @ + Ripple(d.comfort)]
    ELSE pair

Jealousy(pair, d) ==
    IF d.tension > 1000
    THEN [pair EXCEPT !.tension = @ + JealousyTension(d.tension),
                      !.trust = @ - JealousyTrust(d.tension)]
    ELSE pair

applyRippleEffects(loveGraph, d, primaryPairKey) ==
    [k \in DOMAIN loveGraph |->
        IF k = primaryPairKey THEN loveGraph[k]
        ELSE ClampPair(Jealousy(Compersion(loveGraph[k], d), d))]

\* the key updateLoveGraph and checkActAdvancement look the spotlight pair up
\* under: this.currentState.spotlight.sort().join('-')
SpotlightKey(cs) == SortPair(cs.spotlight)

updateLoveGraph(cs, line) ==
    LET pairKey == SpotlightKey(cs)
        lg == cs.episode.loveGraph
        sorted == [cs EXCEPT !.spotlight = SortPair(cs.spotlight)]
    IN  IF pairKey \in DOMAIN lg
        THEN [sorted EXCEPT !.episode.loveGraph =
                 applyRippleEffects(
                     [lg EXCEPT ![pairKey] = ClampPair(AddDeltas(lg[pairKey], line.deltas))],
                     line.deltas, pairKey)]
        ELSE sorted

NoCheckpoint == [type |-> "none", fromAct |-> 0, toAct |-> 0]

SomeLine(cs, P(_)) == \E i \in 1..Len(cs.recentLines) : P(cs.recentLines[i])

MutualSparkNoShared(cs, loveData) == loveData.attraction >= 4000

MutualSpark(cs, loveData) ==
    LET hasReciprocal == loveData.attraction >= 4000
        hasSharedMoment == \/ Len(cs.callbacks) > 0
                           \/ SomeLine(cs, LAMBDA l : l.deltas.trust > 500)
    IN  hasReciprocal /\ hasSharedMoment

ExplicitConflict(cs, loveData) ==
    LET hasConflict == loveData.tension >= 6000
        hasSpokenDisagreement ==
            SomeLine(cs, LAMBDA l : \/ Includes(l.text, "disagree")
                                    \/ Includes(l.text, "wrong")
                                    \/ l.deltas.tension > 1000)
    IN  hasConflict /\ hasSpokenDisagreement

NeedBoundary(cs, loveData) ==
    LET hasTrust == loveData.trust >= 6000
        hasBoundaryStatement ==
            SomeLine(cs, LAMBDA l : \/ Includes(l.text, "need")
                                    \/ Includes(l.text, "want")
                                    \/ Includes(l.text, "boundary"))
    IN  hasTrust /\ hasBoundaryStatement

RelationalChoice(cs) ==
    SomeLine(cs, LAMBDA l : \/ Includes(l.text, "choose")
                            \/ IncludesWantUs(l.text)
                            \/ Includes(l.text, "together"))

checkActAdvancement(cs) ==
    LET currentAct == getCurrentAct(cs)
        found == { c \in checkpoints : c.fromAct = currentAct }
        pairKey == SpotlightKey(cs)
    IN  IF found = {} THEN NoCheckpoint
        ELSE IF pairKey \notin DOMAIN cs.episode.loveGraph THEN NoCheckpoint
        ELSE LET checkpoint == CHOOSE c \in found : TRUE
                 loveData == cs.episode.loveGraph[pairKey]
                 satisfied ==
                     CASE checkpoint.type = "mutual_spark" -> MutualSpark(cs, loveData)
                       [] checkpoint.type = "explicit_conflict" -> ExplicitConflict(cs, loveData)
                       [] checkpoint.type = "need_boundary" -> NeedBoundary(cs, loveData)
                       [] checkpoint.type = "relational_choice" -> RelationalChoice(cs)
             IN  IF satisfied THEN checkpoint ELSE NoCheckpoint

NoPlace == [act |-> 0, scene |-> 0]

DestinationSkips(checkpoint) == checkpoint.toAct + 1

\* const toAct = checkpoint.toAct
Destination(checkpoint) == checkpoint.toAct

advanceActKeepsOpen(w, checkpoint) ==
    LET cs == w.cs
        toAct == Destination(checkpoint)
        old == cs.episode.scenes[cs.currentScene]
        newScene == NewScene(toAct, old.index + 1)
        cs1 == [cs EXCEPT !.episode.actPath = Append(@, toAct),
                          !.episode.scenes = Append(@, newScene),
                          !.currentScene = Len(cs.episode.scenes) + 1,
                          !.plateauCounter = 0]
        transition == [Event("scene.transition", cs1, "",
                             [act |-> checkpoint.fromAct, scene |-> newScene.index - 1],
                             [act |-> toAct, scene |-> newScene.index])
                          EXCEPT !.reason = "checkpoint"]
    IN  [w EXCEPT !.cs = cs1, !.buf = Append(@, transition),
                  !.transitions = Append(@, transition)]

\* w = [cs, buf, transitions, checks]: the story state, the telemetry buffer,
\* the tick's local transitions list, and the checkpoint evaluations so far
advanceAct(w, checkpoint) ==
    LET cs == w.cs
        toAct == Destination(checkpoint)
        old == cs.episode.scenes[cs.currentScene]
        newScene == NewScene(toAct, old.index + 1)
        scenes1 == [cs.episode.scenes EXCEPT ![cs.currentScene] =
                       [@ EXCEPT !.ended = TRUE, !.endedReason = "checkpoint"]]
        cs1 == [cs EXCEPT !.episode.actPath = Append(@, toAct),
                          !.episode.scenes = Append(scenes1, newScene),
                          !.currentScene = Len(scenes1) + 1,
                          !.plateauCounter = 0]
        transition == [Event("scene.transition", cs1, "",
                             [act |-> checkpoint.fromAct, scene |-> newScene.index - 1],
                             [act |-> toAct, scene |-> newScene.index])
                          EXCEPT !.reason = "checkpoint"]
    IN  [w EXCEPT !.cs = cs1, !.buf = Append(@, transition),
                  !.transitions = Append(@, transition)]

DeltaMagnitude(d) == Abs(d.attraction) + Abs(d.trust) + Abs(d.tension) + Abs(d.comfort)

RECURSIVE SumMagnitude(_)
SumMagnitude(lines) ==
    IF lines = <<>> THEN 0
    ELSE DeltaMagnitude(Head(lines).deltas) + SumMagnitude(Tail(lines))

\* avgDeltaMagnitude < 0.02 || hasRepetition, over recentLines.slice(-3)
IsPlateau(recent) ==
    \/ SumMagnitude(recent) < 200 * (Len(recent) * 4)
    \/ \E i \in 1..Len(recent) : \E j \in (i + 1)..Len(recent) :
           SimilarityAbove08(recent[i].text, recent[j].text)

checkPlateauEndsScene(w) ==
    LET cs == w.cs
        n == Len(cs.recentLines)
        recentDeltas == SubSeq(cs.recentLines, IF n > 3 THEN n - 2 ELSE 1, n)
        old == cs.episode.scenes[cs.currentScene]
    IN  IF Len(recentDeltas) < 3 THEN w
        ELSE IF IsPlateau(recentDeltas)
        THEN LET cs1 == [cs EXCEPT !.plateauCounter = @ + 1]
                 cs2 == IF cs1.plateauCounter >= 3
                        THEN [cs1 EXCEPT !.episode.scenes =
                                 Append([@ EXCEPT ![cs.currentScene] =
                                            [@ EXCEPT !.ended = TRUE, !.endedReason = "plateau"]],
                                        NewScene(old.act, old.index + 1)),
                                         !.currentScene = @ + 1]
                        ELSE cs1
             IN  [w EXCEPT !.cs = cs2,
                           !.buf = Append(@, Event("metric.tick", cs1, "plateau_detected",
                                                   NoPlace, NoPlace))]
        ELSE [w EXCEPT !.cs.plateauCounter = 0]

checkPlateau(w) ==
    LET cs == w.cs
        n == Len(cs.recentLines)
        recentDeltas == SubSeq(cs.recentLines, IF n > 3 THEN n - 2 ELSE 1, n)
    IN  IF Len(recentDeltas) < 3 THEN w
        ELSE IF IsPlateau(recentDeltas)
        THEN LET cs1 == [cs EXCEPT !.plateauCounter = @ + 1]
             IN  [w EXCEPT !.cs = cs1,
                           !.buf = Append(@, Event("metric.tick", cs1, "plateau_detected",
                                                   NoPlace, NoPlace))]
        ELSE [w EXCEPT !.cs.plateauCounter = 0]

\* one pass of the loop body of tick over a produced line
LineStep(w, finalLine) ==
    LET cs1 == processLine(w.cs, finalLine)
        cs2 == updateLoveGraph(cs1, Last(cs1.recentLines))
        checkpoint == checkActAdvancement(cs2)
        w2 == [w EXCEPT !.cs = cs2]
        w3 == IF checkpoint # NoCheckpoint THEN advanceAct(w2, checkpoint) ELSE w2
        w4 == checkPlateau(w3)
    IN  [w4 EXCEPT !.checks = Append(@, [at |-> cs2, taken |-> checkpoint.type,
                                         plateauCounter |-> w4.cs.plateauCounter])]

RECURSIVE ProcessLines(_, _)
ProcessLines(w, finalLines) ==
    IF finalLines = <<>> THEN w
    ELSE ProcessLines(LineStep(w, Head(finalLines)), Tail(finalLines))

----------------------------------------------------------------------------
(* tick                                                                     *)

NoFlags == [bias_reassure |-> 0, bias_clarify |-> FALSE, bias_self_disclosure |-> 0,
            bias_stakes |-> 0]

RECURSIVE NudgeFlags(_, _)
NudgeFlags(flags, nudges) ==
    IF nudges = <<>> THEN flags
    ELSE LET effects == nudgeCatalog[Head(nudges).type]
             f1 == IF effects.comfort THEN [flags EXCEPT !.bias_reassure = 7] ELSE flags
             f2 == IF effects.trust THEN [f1 EXCEPT !.bias_self_disclosure = 5] ELSE f1
             f3 == IF effects.tension THEN [f2 EXCEPT !.bias_stakes = 4] ELSE f2
         IN  NudgeFlags(f3, Tail(nudges))

\* flags in tenths: bias_reassure 6 is 0.6
buildBiasFlags(cs) ==
    LET recovery == IF cs.recoveryBias.set
                    THEN [NoFlags EXCEPT !.bias_reassure = 6, !.bias_clarify = TRUE]
                    ELSE NoFlags
    IN  NudgeFlags(recovery, cs.pendingNudges)

NoAgentState == [built |-> FALSE, act |-> 0, spotlight |-> <<>>, bias_flags |-> NoFlags,
                 open_tokens |-> <<>>]

\* getLoveGraphForSpotlight sorts the spotlight array in place before the
\* orchestrator is called
buildAgentState(cs) ==
    [built |-> TRUE, act |-> getCurrentAct(cs), spotlight |-> SortPair(cs.spotlight),
     bias_flags |-> buildBiasFlags(cs), open_tokens |-> cs.callbacks]

processPendingNudges(cs) == [cs EXCEPT !.pendingNudges = <<>>]

updateRecoveryBiasStuck(cs) == cs

updateRecoveryBias(cs) ==
    IF ~cs.recoveryBias.set THEN cs
    ELSE IF cs.recoveryBias.exchangesLeft - 1 <= 0
         THEN [cs EXCEPT !.recoveryBias = NoBias]
         ELSE [cs EXCEPT !.recoveryBias.exchangesLeft = @ - 1]

MetricNames == <<"exchange_counter", "plateau_counter", "active_callbacks",
                 "love_graph_attraction">>

emitMetrics(cs, buf) ==
    buf \o [i \in 1..Len(MetricNames) |->
               Event("metric.tick", cs, MetricNames[i], NoPlace, NoPlace)]

TurnEnds(cs, producedLines) ==
    [i \in 1..Len(producedLines) |-> Event("turn.end", cs, "", NoPlace, NoPlace)]

\* the lines this tick pushed on the window, as returned in producedLines
Produced(finalLines) ==
    [i \in 1..Len(finalLines) |->
        [speaker |-> finalLines[i].speaker, text |-> finalLines[i].text,
         deltas |-> finalLines[i].deltas]]

TickNoEpisodeCounts ==
    /\ currentState.isNull
    /\ exchangeCounter' = exchangeCounter + 1
    /\ ret' = Ret("tick", FALSE, TRUE, <<>>, <<>>, <<>>)
    /\ UNCHANGED <<currentState, telemetryBuffer, nextEpisodeId, agentState, suspended>>

\* if (!this.currentState) throw, before anything is written
TickNoEpisode ==
    /\ currentState.isNull
    /\ ret' = Ret("tick", FALSE, TRUE, <<>>, <<>>, <<>>)
    /\ UNCHANGED <<currentState, exchangeCounter, telemetryBuffer, nextEpisodeId, agentState,
                   suspended>>

\* no call is suspended
NoSuspended == [tick |-> [on |-> FALSE, biasedBy |-> <<>>], nudges |-> <<>>]

\* tick from the return of executeBeatPlan on: the loop over the lines, then
\* the pending nudges, the recovery bias, the metrics and the turn.end
\* events; cs and buf are the story state and the telemetry buffer by then
TickOutcome(cs, buf, finalLines) ==
    LET w == ProcessLines([cs |-> cs, buf |-> buf, transitions |-> <<>>, checks |-> <<>>],
                          finalLines)
        cs1 == updateRecoveryBias(processPendingNudges(w.cs))
    IN  [cs |-> cs1,
         events |-> emitMetrics(cs1, w.buf) \o TurnEnds(cs1, finalLines),
         transitions |-> w.transitions,
         checks |-> w.checks]

\* executeBeatPlan returned finalLines
Tick(finalLines) ==
    /\ ~currentState.isNull
    /\ LET started == Append(telemetryBuffer,
                             Event("turn.start", currentState, "", NoPlace, NoPlace))
           cs0 == [currentState EXCEPT !.spotlight = SortPair(@)]
           out == TickOutcome(cs0, started, finalLines)
       IN  /\ exchangeCounter' = exchangeCounter + 1
           /\ agentState' = buildAgentState(currentState)
           /\ currentState' = out.cs
           /\ telemetryBuffer' = <<>>
           /\ ret' = [Ret("tick", TRUE, FALSE, Produced(finalLines), out.transitions, out.events)
                         EXCEPT !.checks = out.checks]
    /\ UNCHANGED <<nextEpisodeId, suspended>>

TickFailAfterLine ==
    /\ ~currentState.isNull
    /\ exchangeCounter' = exchangeCounter + 1
    /\ telemetryBuffer' = Append(telemetryBuffer,
                                 Event("turn.start", currentState, "", NoPlace, NoPlace))
    /\ agentState' = buildAgentState(currentState)
    /\ currentState' =
           LET cs0 == [currentState EXCEPT !.spotlight = SortPair(@)]
               line == [speaker |-> cs0.spotlight[1], text |-> <<"hello">>,
                        deltas |-> [attraction |-> 1000, trust |-> 0, tension |-> 0,
                                    comfort |-> 0],
                        used_tokens |-> {}]
               cs1 == processLine(cs0, line)
           IN  updateLoveGraph(cs1, Last(cs1.recentLines))
    /\ ret' = Ret("tick", FALSE, TRUE, <<>>, <<>>, <<>>)
    /\ UNCHANGED <<nextEpisodeId, suspended>>

\* executeBeatPlan threw: the error is rethrown from the catch block
TickFail ==
    /\ ~currentState.isNull
    /\ exchangeCounter' = exchangeCounter + 1
    /\ telemetryBuffer' = Append(telemetryBuffer,
                                 Event("turn.start", currentState, "", NoPlace, NoPlace))
    /\ agentState' = buildAgentState(currentState)
    /\ currentState' = [currentState EXCEPT !.spotlight = SortPair(@)]
    /\ ret' = Ret("tick", FALSE, TRUE, <<>>, <<>>, <<>>)
    /\ UNCHANGED <<nextEpisodeId, suspended>>

----------------------------------------------------------------------------
(* applyNudge                                                               *)

GateIgnoresAllowed(act, type) == type \notin actGates[act].blockedNudges

GateAllows(act, type) ==
    /\ type \notin actGates[act].blockedNudges
    /\ type \in actGates[act].allowedNudges

CadenceFive(cs, counter, nudge) ==
    nudge.intensity = "major" => counter - cs.lastMajorNudgeExchange >= MajorCooldown - 1

\* exchangesSinceLastMajor < 6 rejects a major nudge
CadenceAllows(cs, counter, nudge) ==
    nudge.intensity = "major" => counter - cs.lastMajorNudgeExchange >= MajorCooldown

\* the state after an accepted nudge is scheduled and counted
AcceptNudge(cs, counter, nudge) ==
    LET queued == [cs EXCEPT !.pendingNudges = Append(@, nudge)]
    IN  IF nudge.intensity = "major"
        THEN [queued EXCEPT !.lastMajorNudgeExchange = counter,
                            !.episode.scenes[cs.currentScene].majorNudges = @ + 1,
                            !.recoveryBias = [set |-> TRUE, exchangesLeft |-> RecoveryExchanges]]
        ELSE [queued EXCEPT !.episode.scenes[cs.currentScene].minorNudges = @ + 1]

NudgeAccepted(cs, counter, nudge, isSafe) ==
    /\ ~cs.isNull
    /\ GateAllows(getCurrentAct(cs), nudge.type)
    /\ CadenceAllows(cs, counter, nudge)
    /\ isSafe

ApplyNudgeSchedulesFirst(nudge, isSafe) ==
    /\ IF NudgeAccepted(currentState, exchangeCounter, nudge, TRUE)
       THEN /\ currentState' = AcceptNudge(currentState, exchangeCounter, nudge)
            /\ telemetryBuffer' = IF isSafe
                                  THEN Append(telemetryBuffer,
                                           Event("nudge.applied", currentState, nudge.type,
                                                 NoPlace, NoPlace))
                                  ELSE telemetryBuffer
       ELSE UNCHANGED <<currentState, telemetryBuffer>>
    /\ ret' = [Ret("applyNudge", NudgeAccepted(currentState, exchangeCounter, nudge, isSafe),
                   FALSE, <<>>, <<>>, <<>>) EXCEPT !.nudge = nudge, !.isSafe = isSafe]
    /\ UNCHANGED <<exchangeCounter, nextEpisodeId, agentState, suspended>>

\* isSafe is the verdict of safety.validateContent for this nudge
ApplyNudge(nudge, isSafe) ==
    /\ IF NudgeAccepted(currentState, exchangeCounter, nudge, isSafe)
       THEN /\ currentState' = AcceptNudge(currentState, exchangeCounter, nudge)
            /\ telemetryBuffer' = Append(telemetryBuffer,
                   Event("nudge.applied", currentState, nudge.type, NoPlace, NoPlace))
       ELSE UNCHANGED <<currentState, telemetryBuffer>>
    /\ ret' = [Ret("applyNudge", NudgeAccepted(currentState, exchangeCounter, nudge, isSafe),
                   FALSE, <<>>, <<>>, <<>>) EXCEPT !.nudge = nudge, !.isSafe = isSafe]
    /\ UNCHANGED <<exchangeCounter, nextEpisodeId, agentState, suspended>>

----------------------------------------------------------------------------
(* applyNudge and tick as the event loop runs them: a call runs up to its   *)
(* await on a collaborator, other calls run meanwhile, and the call resumes *)
(* when the collaborator answers.  The awaits on the engine's own async     *)
(* methods inside the loop of tick are not interleaving points here.         *)

\* applyNudge up to `await this.safety.validateContent(...)`: the episode, gate
\* and cadence checks; a refused call returns at once
NudgeBegin(nudge) ==
    /\ IF /\ ~currentState.isNull
          /\ GateAllows(getCurrentAct(currentState), nudge.type)
          /\ CadenceAllows(currentState, exchangeCounter, nudge)
       THEN /\ suspended' = [suspended EXCEPT !.nudges = Append(@, nudge)]
            /\ UNCHANGED ret
       ELSE /\ ret' = [Ret("applyNudge", FALSE, FALSE, <<>>, <<>>, <<>>)
                          EXCEPT !.nudge = nudge]
            /\ UNCHANGED suspended
    /\ UNCHANGED <<currentState, exchangeCounter, telemetryBuffer, nextEpisodeId, agentState>>

\* all but the i-th element
Without(seq, i) == SubSeq(seq, 1, i - 1) \o SubSeq(seq, i + 1, Len(seq))

\* applyNudge from the safety verdict on, for the i-th suspended call
NudgeResume(i, isSafe) ==
    /\ i \in 1..Len(suspended.nudges)
    /\ LET nudge == suspended.nudges[i]
       IN  /\ IF isSafe
              THEN /\ currentState' = AcceptNudge(currentState, exchangeCounter, nudge)
                   /\ telemetryBuffer' = Append(telemetryBuffer,
                          Event("nudge.applied", currentState, nudge.type, NoPlace, NoPlace))
              ELSE UNCHANGED <<currentState, telemetryBuffer>>
           /\ ret' = [Ret("applyNudge", isSafe, FALSE, <<>>, <<>>, <<>>)
                         EXCEPT !.nudge = nudge, !.isSafe = isSafe]
    /\ suspended' = [suspended EXCEPT !.nudges = Without(@, i)]
    /\ UNCHANGED <<exchangeCounter, nextEpisodeId, agentState>>

\* tick up to `await this.characterOrchestrator.executeBeatPlan(...)`; biasedBy
\* is the pending queue buildBiasFlags walked
TickBegin ==
    /\ ~currentState.isNull
    /\ ~suspended.tick.on
    /\ exchangeCounter' = exchangeCounter + 1
    /\ telemetryBuffer' = Append(telemetryBuffer,
                                 Event("turn.start", currentState, "", NoPlace, NoPlace))
    /\ agentState' = buildAgentState(currentState)
    /\ currentState' = [currentState EXCEPT !.spotlight = SortPair(@)]
    /\ suspended' = [suspended EXCEPT
                        !.tick = [on |-> TRUE, biasedBy |-> currentState.pendingNudges]]
    /\ UNCHANGED <<nextEpisodeId, ret>>

\* tick from the return of executeBeatPlan on
TickResume(finalLines) ==
    /\ suspended.tick.on
    /\ LET out == TickOutcome(currentState, telemetryBuffer, finalLines)
       IN  /\ currentState' = out.cs
           /\ telemetryBuffer' = <<>>
           /\ ret' = [Ret("tick", TRUE, FALSE, Produced(finalLines), out.transitions, out.events)
                         EXCEPT !.checks = out.checks]
    /\ suspended' = [suspended EXCEPT !.tick = NoSuspended.tick]
    /\ UNCHANGED <<exchangeCounter, nextEpisodeId, agentState>>

----------------------------------------------------------------------------
(* getState                                                                 *)

cadenceStatus(cs) ==
    [majorBudgetUsed |-> cs.episode.scenes[cs.currentScene].majorNudges,
     majorBudgetMax |-> 1,
     lastMajorExchange |-> cs.lastMajorNudgeExchange,
     recoveryMode |-> cs.recoveryBias.set]

\* generateThresholdBadges and calculateFragilityIndex read the spotlight pair
\* through getLoveGraphForSpotlight, which sorts the spotlight in place
GetState ==
    /\ currentState' = IF currentState.isNull THEN currentState
                       ELSE [currentState EXCEPT !.spotlight = SortPair(@)]
    /\ ret' = Ret("getState", ~currentState.isNull, FALSE, <<>>, <<>>, <<>>)
    /\ UNCHANGED <<exchangeCounter, telemetryBuffer, nextEpisodeId, agentState, suspended>>

----------------------------------------------------------------------------
(* EvaluationEngine (engines/evaluation.ts)                                 *)
(*                                                                          *)
(* Scores are fixed-point like the love graph.  Where the program rounds a  *)
(* product or a quotient to a double, the model rounds it down to 1/10000.  *)
(* The rolling window keeps the text of each line, a sequence of words.     *)
(* An embedding call is what its collaborator answers: it fails, or the     *)
(* mock line of the candidate has some average cosine similarity to the     *)
(* last lines of the window.                                                *)

actCoherenceWeights == <<7000, 9000, 12000, 16000, 18000>>
windowSize == 12
MaxRecentDeltas == 10
majorNudgeCooldown == 6
minScoreThreshold == 3000
MaxCandidates == 5

NewEvaluationEngine ==
    [rollingWindow |-> <<>>,
     recentDeltas |-> <<>>,
     evaluationSnapshots |-> <<>>,
     majorNudgeCount |-> 0,
     lastMajorNudgeTime |-> 0,
     exchangeCounter |-> 0]

Min2(a, b) == IF a < b THEN a ELSE b

Max2(a, b) == IF a > b THEN a ELSE b

\* s.slice(-n)
LastN(s, n) == IF Len(s) <= n THEN s ELSE SubSeq(s, Len(s) - n + 1, Len(s))

NoLine == [isNull |-> TRUE, text |-> <<>>]

\* the nudge of a candidate or of a recommendation; no token is ""
Candidate(type, intensity, token) ==
    [type |-> type, intensity |-> intensity, source |-> "auto", token |-> token]

NoCandidate == [type |-> "none", intensity |-> "none", source |-> "none", token |-> ""]

EvaluationScores(freshnessGain, coherenceCost, fragilityIndex, finalScore) ==
    [freshnessGain |-> freshnessGain, coherenceCost |-> coherenceCost,
     fragilityIndex |-> fragilityIndex, finalScore |-> finalScore]

NoFragility == [highTension |-> 0, lowTrust |-> 0, recentContradictions |-> 0, total |-> 0]

\* an EvaluationState; callbackActivity is undefined when defined is FALSE
EvaluationState(act, loveGraphDeltas, callbackActivity, defined) ==
    [structuralState |-> [act |-> act],
     loveGraphDeltas |-> loveGraphDeltas,
     callbackActivity |-> callbackActivity,
     defined |-> defined]

\* what a call of the EvaluationEngine returned, with what it was given and
\* what it computed on the way: the fragility components, the number of
\* snapshots it appended, whether the catch block built the result and whether
\* an embedding call failed
NoRecommendation ==
    [op |-> "none", abstain |-> FALSE, autoNudge |-> NoCandidate, rationales |-> <<>>,
     scores |-> EvaluationScores(0, 0, 0, 0), fragility |-> NoFragility,
     state |-> EvaluationState(1, <<>>, <<>>, TRUE), appended |-> 0,
     caught |-> FALSE, embeddingFailed |-> FALSE]

Returned(op) == [NoRecommendation EXCEPT !.op = op]

addToRollingWindow(ev, text) ==
    [ev EXCEPT !.rollingWindow = LastN(Append(@, text), windowSize)]

processTurnEnd(ev, event) ==
    [addToRollingWindow(ev, event.line.text)
        EXCEPT !.recentDeltas = LastN(Append(@, event.deltas), MaxRecentDeltas)]

processNudgeApplied(ev, event) ==
    IF event.nudge.intensity = "major"
    THEN [ev EXCEPT !.majorNudgeCount = @ + 1, !.lastMajorNudgeTime = ev.exchangeCounter]
    ELSE ev

processMetricTick(ev, event) ==
    IF event.name = "exchange_counter" THEN [ev EXCEPT !.exchangeCounter = event.value]
    ELSE ev

onTelemetry(ev, event) ==
    CASE event.kind = "turn.end"      -> processTurnEnd(ev, event)
      [] event.kind = "nudge.applied" -> processNudgeApplied(ev, event)
      [] event.kind = "metric.tick"   -> processMetricTick(ev, event)
      [] OTHER                        -> ev

RECURSIVE SumTension(_)
SumTension(deltas) ==
    IF deltas = <<>> THEN 0 ELSE Head(deltas).tension + SumTension(Tail(deltas))

RECURSIVE SumTrust(_)
SumTrust(deltas) ==
    IF deltas = <<>> THEN 0 ELSE Head(deltas).trust + SumTrust(Tail(deltas))

\* the words (lower case) that contain the word as a substring
WordsWith(word) ==
    CASE word = "yes"      -> {"yes"}
      [] word = "no"       -> {"no", "know"}
      [] word = "love"     -> {"love"}
      [] word = "hate"     -> {"hate"}
      [] word = "trust"    -> {"trust", "distrust"}
      [] word = "distrust" -> {"distrust"}

\* text.toLowerCase().includes(word) for a word without a space
IncludesWord(text, word) == LowerWords(text) \cap WordsWith(word) # {}

\* recent[0] includes 'want' and recent[1] includes "don't want"
WantDontWant(first, second) ==
    /\ LowerWords(first) \cap {"want", "wanted"} # {}
    /\ \E i \in 1..(Len(second) - 1) :
          /\ ToLower(second[i]) = "don't"
          /\ ToLower(second[i + 1]) \in {"want", "wanted"}

contradictoryPairs == { <<"yes", "no">>, <<"love", "hate">>, <<"trust", "distrust">> }

detectContradictions(ev) ==
    IF Len(ev.rollingWindow) < 2 THEN 0
    ELSE LET recent == LastN(ev.rollingWindow, 2)
         IN  IF \/ \E pair \in contradictoryPairs :
                      IncludesWord(recent[1], pair[1]) /\ IncludesWord(recent[2], pair[2])
                \/ WantDontWant(recent[1], recent[2])
             THEN 5000
             ELSE 1000

calculateFragilityIndex(ev) ==
    LET n == Len(ev.recentDeltas)
        avgTension == IF n > 0 THEN SumTension(ev.recentDeltas) \div n ELSE 2000
        highTension == Max2(0, avgTension - 5000) * 2
        avgTrust == IF n > 0 THEN SumTrust(ev.recentDeltas) \div n ELSE 3000
        lowTrust == Max2(0, 5000 - avgTrust) * 2
        recentContradictions == detectContradictions(ev)
    IN  [highTension |-> highTension,
         lowTrust |-> lowTrust,
         recentContradictions |-> recentContradictions,
         total |-> Min2(One, (4 * highTension + 4 * lowTrust + 2 * recentContradictions) \div 10)]

\* embed[type] is the answer of the embedding collaborator for the mock line of
\* that nudge type: it fails, or the average similarity to the last lines
calculateSemanticNovelty(ev, candidate, embed) ==
    IF Len(ev.rollingWindow) < 2 THEN 8000
    ELSE IF embed[candidate.type].fails THEN 5000
    ELSE Max2(0, One - embed[candidate.type].similarity)

RECURSIVE RecentUsage(_, _)
RecentUsage(snapshots, nudgeType) ==
    IF snapshots = <<>> THEN 0
    ELSE (IF Head(snapshots).chosen /\ Head(snapshots).candidate.type = nudgeType THEN 1 ELSE 0)
         + RecentUsage(Tail(snapshots), nudgeType)

calculateDiversityBonus(ev, nudgeType) ==
    Max2(0, One - RecentUsage(LastN(ev.evaluationSnapshots, 10), nudgeType) * 3000)

RECURSIVE SumDeltaMagnitudes(_)
SumDeltaMagnitudes(deltas) ==
    IF deltas = <<>> THEN 0
    ELSE Abs(Head(deltas).attraction) + Abs(Head(deltas).trust)
         + Abs(Head(deltas).tension) + Abs(Head(deltas).comfort)
         + SumDeltaMagnitudes(Tail(deltas))

\* the average of the last three magnitudes is below 0.05 when their sum is
\* below 0.15
calculateStagnationBuster(ev) ==
    IF Len(ev.recentDeltas) < 3 THEN 0
    ELSE IF SumDeltaMagnitudes(LastN(ev.recentDeltas, 3)) < 1500 THEN 8000
    ELSE 2000

calculateFreshnessGain(ev, candidate, embed) ==
    LET semanticNovelty == calculateSemanticNovelty(ev, candidate, embed)
        diversityBonus == calculateDiversityBonus(ev, candidate.type)
        stagnationBuster == calculateStagnationBuster(ev)
        callbackRevival == IF candidate.token # "" THEN 3000 ELSE 0
    IN  Min2(One, (4 * semanticNovelty + 3 * diversityBonus
                   + 2 * stagnationBuster + callbackRevival) \div 10)

assessPersonaDriftRisk(candidate) ==
    CASE candidate.type = "raise_stakes"  -> 3000
      [] candidate.type = "vulnerability" -> 1000
      [] candidate.type = "comfort"       -> 500
      [] candidate.type = "recall"        -> 1000
      [] candidate.type = "aside"         -> 2000
      [] candidate.type = "tempo_up"      -> 1500
      [] candidate.type = "tempo_down"    -> 1000
      [] OTHER                            -> 1000

assessActGrammarViolation(candidate, act) ==
    CASE act = 1 /\ candidate.type = "raise_stakes" -> 8000
      [] act = 3 /\ candidate.type = "comfort"      -> 6000
      [] act = 4 /\ candidate.type = "raise_stakes" -> 7000
      [] act = 5 /\ candidate.type = "raise_stakes" -> 9000
      [] act = 5 /\ candidate.type = "aside"        -> 8000
      [] OTHER                                      -> 1000

\* reads state.callbackActivity.length only for a recall candidate
assessContinuityRisk(candidate, state) ==
    IF candidate.type = "recall" /\ Len(state.callbackActivity) = 0 THEN 8000 ELSE 1000

assessSafetyRisk(candidate) ==
    IF candidate.type = "raise_stakes" /\ candidate.intensity = "major" THEN 2000 ELSE 500

calculateCoherenceCost(candidate, state) ==
    LET act == state.structuralState.act
        actWeight == (act - 1) * 1000 + One
        weighted == (30 * assessPersonaDriftRisk(candidate)
                     + 25 * assessActGrammarViolation(candidate, act)
                     + 25 * assessContinuityRisk(candidate, state)
                     + 20 * assessSafetyRisk(candidate)) \div 100
    IN  Min2(One, (actWeight * weighted) \div One)

calculateLambdaFlat(fragility, act) == (actCoherenceWeights[act] * 6000) \div One

calculateLambda(fragility, act) ==
    LET fragilityMultiplier == 6000 + (fragility * 12) \div 10
    IN  (actCoherenceWeights[act] * fragilityMultiplier) \div One

scoreNudgeCandidate(ev, candidate, state, fragility, embed) ==
    LET freshnessGain == calculateFreshnessGain(ev, candidate, embed)
        coherenceCost == calculateCoherenceCost(candidate, state)
        lambda == calculateLambda(fragility.total, state.structuralState.act)
        finalScore == freshnessGain - (lambda * coherenceCost) \div One
    IN  EvaluationScores(freshnessGain, coherenceCost, fragility.total,
                         Max2(-One, Min2(One, finalScore)))

availableNudges ==
    << <<"comfort", "vulnerability", "recall", "tempo_down">>,
       <<"comfort", "vulnerability", "recall", "aside", "tempo_up", "raise_stakes">>,
       <<"raise_stakes", "vulnerability", "aside", "tempo_up">>,
       <<"comfort", "vulnerability", "recall", "tempo_down">>,
       <<"comfort", "recall", "tempo_down">> >>

determineNudgeIntensity(nudgeType) == IF nudgeType = "raise_stakes" THEN "major" ELSE "minor"

\* the loop reads state.callbackActivity.length when it builds a recall
\* candidate, and throws a TypeError there when callbackActivity is undefined
generateThrows(state) ==
    /\ ~state.defined
    /\ \E i \in DOMAIN availableNudges[state.structuralState.act] :
          availableNudges[state.structuralState.act][i] = "recall"

generateNudgeCandidatesUnsliced(state) ==
    LET actNudges == availableNudges[state.structuralState.act]
    IN  [i \in 1..Len(actNudges) |->
            Candidate(actNudges[i], determineNudgeIntensity(actNudges[i]),
                      IF actNudges[i] = "recall" /\ Len(state.callbackActivity) > 0
                      THEN state.callbackActivity[1] ELSE "")]

generateNudgeCandidates(state) ==
    LET actNudges == availableNudges[state.structuralState.act]
        candidates ==
            [i \in 1..Len(actNudges) |->
                Candidate(actNudges[i], determineNudgeIntensity(actNudges[i]),
                          IF actNudges[i] = "recall" /\ Len(state.callbackActivity) > 0
                          THEN state.callbackActivity[1] ELSE "")]
    IN  SubSeq(candidates, 1, Min2(Len(candidates), MaxCandidates))

checkCadenceConstraints(ev, nudge) ==
    IF /\ nudge.intensity = "major"
       /\ ev.exchangeCounter - ev.lastMajorNudgeTime < majorNudgeCooldown
    THEN [allowed |-> FALSE, reason |-> "Major nudge cooldown"]
    ELSE IF /\ ev.exchangeCounter - ev.lastMajorNudgeTime <= 2
            /\ nudge.type \notin {"comfort", "clarify"}
    THEN [allowed |-> FALSE,
          reason |-> "Recovery period active - comfort/clarify nudges preferred"]
    ELSE [allowed |-> TRUE, reason |-> "Cadence constraints satisfied"]

\* rationales.push(text) when the condition holds
PushIf(condition, text) == IF condition THEN <<text>> ELSE <<>>

generateRationalesNoDefault(ev, candidate, scores, state) ==
    PushIf(scores.freshnessGain > 7000, "High novelty potential")
    \o PushIf(candidate.token # "", "Dormant callback revival")

generateRationales(ev, candidate, scores, state) ==
    LET rationales ==
            PushIf(scores.freshnessGain > 7000, "High novelty potential")
            \o PushIf(candidate.token # "", "Dormant callback revival")
            \o PushIf(calculateStagnationBuster(ev) > 6000, "Story momentum stagnating")
            \o PushIf(scores.coherenceCost > 5000, "Moderate coherence risk")
            \o PushIf(state.structuralState.act >= 4 /\ candidate.type = "raise_stakes",
                      "Late-act stakes escalation")
            \o PushIf(state.structuralState.act <= 2 /\ candidate.type = "vulnerability",
                      "Early vulnerability building")
            \o PushIf(scores.fragilityIndex > 6000 /\ candidate.type = "comfort",
                      "Fragile scene needs stabilization")
    IN  IF Len(rationales) > 0 THEN rationales ELSE <<"Standard progression nudge">>

\* the loop of consider over the candidates: candidate i is scored against the
\* log as the candidates before it left it, and its snapshot is pushed on the
\* log, not chosen
Snapshot(seen, candidate, state, fragility, embed) ==
    LET scores == scoreNudgeCandidate(seen, candidate, state, fragility, embed)
    IN  [sceneId |-> state.structuralState.act,
         candidate |-> candidate,
         scores |-> scores,
         rationales |-> generateRationales(seen, candidate, scores, state),
         chosen |-> FALSE]

\* what candidate i sees: the snapshots pushed before it in this call are not
\* chosen and carry no score it reads, so they are written with the scores of
\* the catch block; only their number matters to calculateDiversityBonus
SeenBy(ev, candidates, state, i) ==
    [ev EXCEPT !.evaluationSnapshots =
        @ \o [j \in 1..(i - 1) |->
                 [sceneId |-> state.structuralState.act,
                  candidate |-> candidates[j],
                  scores |-> EvaluationScores(0, One, One, -One),
                  rationales |-> <<>>,
                  chosen |-> FALSE]]]

ScoreCandidates(ev, candidates, state, fragility, embed) ==
    [ev EXCEPT !.evaluationSnapshots =
        @ \o [i \in 1..Len(candidates) |->
                 Snapshot(SeenBy(ev, candidates, state, i),
                          candidates[i], state, fragility, embed)]]

\* scoredCandidates.sort(...)[0] as an index of the log: the sort is stable, so
\* the best candidate is the first of those with the highest final score
BestCandidate(snapshots, first) ==
    CHOOSE i \in first..Len(snapshots) :
        /\ \A j \in first..Len(snapshots) :
              snapshots[j].scores.finalScore <= snapshots[i].scores.finalScore
        /\ \A j \in first..(i - 1) :
              snapshots[j].scores.finalScore < snapshots[i].scores.finalScore

\* the result the catch block builds
SafeAbstention(state) ==
    [op |-> "consider", abstain |-> TRUE, autoNudge |-> NoCandidate,
     rationales |-> <<"Evaluation error occurred", "Defaulting to safe abstention">>,
     scores |-> EvaluationScores(0, One, One, -One), fragility |-> NoFragility,
     state |-> state, appended |-> 0, caught |-> TRUE, embeddingFailed |-> FALSE]

MarkChosenOldest(snapshots, best) == [snapshots EXCEPT ![1].chosen = TRUE]

\* this.evaluationSnapshots.find(s => s.candidate === bestCandidate.nudge)!.chosen = true:
\* the candidate is found by identity, so it is the snapshot this call pushed
MarkChosen(snapshots, best) == [snapshots EXCEPT ![best].chosen = TRUE]

\* consider(state, lastLine), with the answers of the embedding collaborator
Consider(state, lastLine, embed) ==
    LET counted == [evaluationEngine EXCEPT !.exchangeCounter = @ + 1]
        ev == IF lastLine.isNull THEN counted ELSE addToRollingWindow(counted, lastLine.text)
        fragility == calculateFragilityIndex(ev)
        candidates == generateNudgeCandidates(state)
        first == Len(ev.evaluationSnapshots) + 1
        scored == ScoreCandidates(ev, candidates, state, fragility, embed)
        log == scored.evaluationSnapshots
        best == BestCandidate(log, first)
        cadenceCheck == checkCadenceConstraints(scored, log[best].candidate)
        result == [op |-> "consider", abstain |-> FALSE, autoNudge |-> NoCandidate,
                   rationales |-> <<>>, scores |-> EvaluationScores(0, 0, fragility.total, 0),
                   fragility |-> fragility, state |-> state, appended |-> Len(candidates),
                   caught |-> FALSE,
                   embeddingFailed |-> /\ Len(ev.rollingWindow) >= 2
                                       /\ \E i \in DOMAIN candidates :
                                             embed[candidates[i].type].fails]
    IN  IF generateThrows(state)
        THEN /\ evaluationEngine' = ev
             /\ recommendation' = SafeAbstention(state)
        ELSE IF candidates = <<>> \/ log[best].scores.finalScore < minScoreThreshold
        THEN /\ evaluationEngine' = scored
             /\ recommendation' =
                    [result EXCEPT !.abstain = TRUE,
                                   !.rationales = <<"All candidates below minimum threshold",
                                                    "Maintaining current trajectory">>]
        ELSE IF ~cadenceCheck.allowed
        THEN /\ evaluationEngine' = scored
             /\ recommendation' =
                    [result EXCEPT !.abstain = TRUE,
                                   !.rationales = <<cadenceCheck.reason,
                                                    "Respecting nudge cadence limits">>,
                                   !.scores = log[best].scores]
        ELSE /\ evaluationEngine' = [scored EXCEPT !.evaluationSnapshots = MarkChosen(@, best)]
             /\ recommendation' =
                    [result EXCEPT !.autoNudge = log[best].candidate,
                                   !.rationales = log[best].rationales,
                                   !.scores = log[best].scores]

\* onTelemetry(event)
OnTelemetry(event) ==
    /\ evaluationEngine' = onTelemetry(evaluationEngine, event)
    /\ recommendation' = Returned("onTelemetry")

\* clearSnapshots()
ClearSnapshots ==
    /\ evaluationEngine' = [evaluationEngine EXCEPT !.evaluationSnapshots = <<>>]
    /\ recommendation' = Returned("clearSnapshots")

----------------------------------------------------------------------------
(* The callers and the collaborators: seeds, nudges and produced lines      *)

D(a, t, n, c) == [attraction |-> a, trust |-> t, tension |-> n, comfort |-> c]

Seed(characters, callbacks) ==
    [characters |-> characters, callbacks |-> callbacks, importSeed |-> FALSE]

Nudge(type, intensity) == [type |-> type, intensity |-> intensity]

Spark  == [text |-> <<"yes", "i", "agree">>,        deltas |-> D(3000, 0, 0, 0),          used_tokens |-> {"t1"}]
Cold   == [text |-> <<"i", "disagree">>,            deltas |-> D(-3000, -1000, 3000, 1000), used_tokens |-> {}]
Flirt  == [text |-> <<"hello", "you">>,             deltas |-> D(3000, 1000, 0, 0),       used_tokens |-> {}]
Leap   == [text |-> <<"i", "Need", "us", "together">>, deltas |-> D(3000, 3000, 3000, 3000), used_tokens |-> {}]

FinalLine(speaker, content) ==
    [speaker |-> speaker, text |-> content.text, deltas |-> content.deltas,
     used_tokens |-> content.used_tokens]

\* executeBeatPlan walks speaker_order = [spotlight[0], spotlight[1]] (sorted by
\* then) and pushes a line for each speaker that produced one
Beats(cs, lines, maxLines, silent) ==
    LET order == SortPair(cs.spotlight)
    IN  (IF silent \/ order[1] = Undefined THEN {<<>>} ELSE {})
        \cup (IF order[1] = Undefined THEN {}
              ELSE { <<FinalLine(order[1], c)>> : c \in lines })
        \cup IF maxLines < 2 \/ order[2] = Undefined THEN {}
             ELSE { <<FinalLine(order[1], c[1]), FinalLine(order[2], c[2])>> : c \in lines \X lines }

StoryCallers ==
    [seeds |-> { Seed(<<2, 1>>, <<>>), Seed(<<1, 3, 2>>, <<"t1">>) },
     nudges |-> { Nudge("comfort", "minor") },
     verdicts |-> { TRUE },
     lines |-> { Leap, Spark, Cold },
     maxLines |-> 2,
     silent |-> TRUE,
     maxTicks |-> MaxStoryTicks]

CadenceCallers ==
    [seeds |-> { Seed(<<1, 2>>, <<>>) },
     nudges |-> { Nudge("raise_stakes", "major"), Nudge("comfort", "minor") },
     verdicts |-> BOOLEAN,
     lines |-> { Flirt },
     maxLines |-> 1,
     silent |-> FALSE,
     maxTicks |-> MaxCadenceTicks]

GateCallers ==
    [seeds |-> { Seed(<<1, 2>>, <<>>) },
     nudges |-> { Nudge(t, i) : t \in NudgeTypes, i \in {"minor", "major"} },
     verdicts |-> BOOLEAN,
     lines |-> { Leap },
     maxLines |-> 1,
     silent |-> TRUE,
     maxTicks |-> MaxGateTicks]

\* the checkpoint test writes the spotlight pair's record and the callbacks of
\* the episode it has just started: attraction 0.45, trust 0.2, tension 0.3,
\* comfort 0.2, one open callback token
ForceSpark ==
    /\ ~currentState.isNull
    /\ ret.op = "startEpisode"
    /\ currentState' = [currentState EXCEPT
                           !.episode.loveGraph =
                               [k \in DOMAIN @ \cup {<<1, 2>>} |->
                                   IF k = <<1, 2>> THEN D(4500, 2000, 3000, 2000) ELSE @[k]],
                           !.callbacks = <<"t1">>]
    /\ ret' = Ret("force", TRUE, FALSE, <<>>, <<>>, <<>>)
    /\ UNCHANGED <<exchangeCounter, telemetryBuffer, nextEpisodeId, agentState, suspended>>

SparkCallers ==
    [seeds |-> { Seed(<<1, 2>>, <<>>) },
     nudges |-> {},
     verdicts |-> { TRUE },
     lines |-> { Spark, Flirt, Cold },
     maxLines |-> 2,
     silent |-> TRUE,
     maxTicks |-> MaxStoryTicks]

StartCallers ==
    [seeds |-> { Seed(<<>>, <<>>), Seed(<<2>>, <<>>), Seed(<<2, 1>>, <<>>),
                 Seed(<<1, 2, 3>>, <<"t1">>) },
     nudges |-> { Nudge("comfort", "major"), Nudge("recall", "minor") },
     verdicts |-> { TRUE },
     lines |-> { Leap },
     maxLines |-> 1,
     silent |-> TRUE,
     maxTicks |-> MaxStartTicks]

AsyncCallers ==
    [seeds |-> { Seed(<<1, 2>>, <<>>) },
     nudges |-> { Nudge("comfort", "major"), Nudge("recall", "minor") },
     verdicts |-> BOOLEAN,
     lines |-> {},
     maxLines |-> 1,
     silent |-> TRUE,
     maxTicks |-> MaxAsyncTicks]

\* a long scene: two characters, one or two lines in every tick
WindowCallers ==
    [seeds |-> { Seed(<<1, 2>>, <<>>) },
     nudges |-> {},
     verdicts |-> { TRUE },
     lines |-> { Flirt },
     maxLines |-> 2,
     silent |-> FALSE,
     maxTicks |-> MaxWindowTicks]

\* the telemetry events the EvaluationEngine reads a field of
TurnEndEvent(line) ==
    [kind |-> "turn.end", line |-> line, deltas |-> line.deltas,
     nudge |-> NoCandidate, name |-> "", value |-> 0]

NudgeAppliedEvent(intensity) ==
    [kind |-> "nudge.applied", line |-> NoLine, deltas |-> D(0, 0, 0, 0),
     nudge |-> [NoCandidate EXCEPT !.intensity = intensity], name |-> "", value |-> 0]

MetricTickEvent(name, value) ==
    [kind |-> "metric.tick", line |-> NoLine, deltas |-> D(0, 0, 0, 0),
     nudge |-> NoCandidate, name |-> name, value |-> value]

TurnStartEvent ==
    [kind |-> "turn.start", line |-> NoLine, deltas |-> D(0, 0, 0, 0),
     nudge |-> NoCandidate, name |-> "", value |-> 0]

\* lines with the deltas of the fragile and of the stable scene of the
\* acceptance tests, and a line that hardly moves the pair
Tense == [isNull |-> FALSE, text |-> <<"Yes", "i", "agree">>, deltas |-> D(0, -1000, 3000, -500)]
Still == [isNull |-> FALSE, text |-> <<"no", "way">>,         deltas |-> D(200, 100, 0, 100)]

Fragile == << D(0, -1000, 3000, -500), D(0, -1000, 2500, -1000) >>
Stable  == << D(1000, 1000, 0, 1500), D(500, 1000, 0, 1000) >>

\* answers of the embedding collaborator: the random vectors of the mock, a
\* failure, and lines of which only the raise_stakes mock line is new
Answer(fails, similarity) == [fails |-> fails, similarity |-> similarity]
MockEmbedding == [t \in NudgeTypes |-> Answer(FALSE, 7500)]
EmbeddingFails == [t \in NudgeTypes |-> Answer(TRUE, 0)]
StakesAreNew ==
    [t \in NudgeTypes |-> IF t = "raise_stakes" THEN Answer(FALSE, 0) ELSE Answer(FALSE, One)]

EvalCallers ==
    [events |-> { TurnEndEvent(Tense), TurnEndEvent(Still),
                  NudgeAppliedEvent("minor"),
                  MetricTickEvent("plateau_counter", 1),
                  TurnStartEvent },
     states |-> { EvaluationState(1, <<>>, <<"test callback">>, TRUE),
                  EvaluationState(2, <<>>, <<"test callback">>, TRUE),
                  EvaluationState(3, Fragile, <<>>, TRUE),
                  EvaluationState(3, Stable, <<>>, TRUE),
                  EvaluationState(4, <<>>, <<>>, TRUE),
                  EvaluationState(5, <<>>, <<>>, TRUE),
                  EvaluationState(5, <<>>, <<>>, FALSE) },
     lastLines |-> { NoLine },
     embeds |-> { EmbeddingFails, StakesAreNew }]


\* the loop of the demo: a seed without open loops, lines that take the story
\* to act 3 and keep it there, every nudge found safe
LoopCallers ==
    [seeds |-> { Seed(<<1, 2>>, <<>>) },
     nudges |-> {},
     verdicts |-> { TRUE },
     lines |-> { Leap, Flirt },
     maxLines |-> 1,
     silent |-> FALSE,
     maxTicks |-> MaxLoopTicks,
     embeds |-> { MockEmbedding, StakesAreNew }]


----------------------------------------------------------------------------
(* Specifications                                                           *)

Init ==
    /\ currentState = Null
    /\ exchangeCounter = 0
    /\ telemetryBuffer = <<>>
    /\ nextEpisodeId = 1
    /\ agentState = NoAgentState
    /\ ret = Ret("none", FALSE, FALSE, <<>>, <<>>, <<>>)
    /\ suspended = NoSuspended
    /\ evaluationEngine = NewEvaluationEngine
    /\ recommendation = NoRecommendation

\* the first startEpisode on a fresh engine
DoStart(c) ==
    /\ currentState.isNull
    /\ \E seed \in c.seeds : StartEpisode(seed)
    /\ UNCHANGED evaluator

\* applyNudge, called while fewer than MaxBuffered events wait for the next flush
DoNudge(c) ==
    /\ Len(telemetryBuffer) < MaxBuffered
    /\ \E nudge \in c.nudges, isSafe \in c.verdicts : ApplyNudge(nudge, isSafe)
    /\ UNCHANGED evaluator

RECURSIVE TotalNudges(_)
TotalNudges(scenes) ==
    IF scenes = <<>> THEN 0
    ELSE Head(scenes).majorNudges + Head(scenes).minorNudges + TotalNudges(Tail(scenes))

\* applyNudge, called while the episode has accepted fewer than MaxGateNudges nudges
DoGateNudge(c) ==
    /\ IF currentState.isNull THEN TRUE
       ELSE TotalNudges(currentState.episode.scenes) < MaxGateNudges
    /\ \E nudge \in c.nudges, isSafe \in c.verdicts : ApplyNudge(nudge, isSafe)
    /\ UNCHANGED evaluator

DoTick(c) ==
    /\ exchangeCounter < c.maxTicks
    /\ ~currentState.isNull
    /\ \E beat \in Beats(currentState, c.lines, c.maxLines, c.silent) : Tick(beat)
    /\ UNCHANGED evaluator

DoTickFail(c) ==
    /\ exchangeCounter < c.maxTicks
    /\ Len(telemetryBuffer) < MaxBuffered
    /\ TickFail
    /\ UNCHANGED evaluator

Next ==
    \/ DoStart(StoryCallers)
    \/ DoNudge(StoryCallers)
    \/ DoTick(StoryCallers)

Spec == Init /\ [][Next]_vars

NextCadence ==
    \/ DoStart(CadenceCallers)
    \/ DoNudge(CadenceCallers)
    \/ DoTick(CadenceCallers)
    \/ DoTickFail(CadenceCallers)

SpecCadence == Init /\ [][NextCadence]_vars

NextGate ==
    \/ DoStart(GateCallers)
    \/ DoGateNudge(GateCallers)
    \/ DoTick(GateCallers)
    \/ DoTickFail(GateCallers)

SpecGate == Init /\ [][NextGate]_vars

\* the checkpoint scenario of the acceptance tests
DoForceSpark == ForceSpark /\ UNCHANGED evaluator

NextSpark ==
    \/ DoStart(SparkCallers)
    \/ DoForceSpark
    \/ DoTick(SparkCallers)

SpecSpark == Init /\ [][NextSpark]_vars

\* startEpisode, on a fresh engine or over the episode in progress
DoRestart(c) ==
    /\ nextEpisodeId <= MaxEpisodes
    /\ \E seed \in c.seeds : StartEpisode(seed)
    /\ UNCHANGED evaluator

DoTickNoEpisode == TickNoEpisode /\ UNCHANGED evaluator

DoGetState == GetState /\ UNCHANGED evaluator

\* the engine from construction on: calls before an episode exists, episodes
\* started one over the other
NextStart ==
    \/ DoRestart(StartCallers)
    \/ DoTickNoEpisode
    \/ DoGetState
    \/ DoNudge(StartCallers)
    \/ DoTick(StartCallers)

SpecStart == Init /\ [][NextStart]_vars

\* applyNudge called while fewer than MaxInFlight nudges are suspended or queued
DoNudgeBegin(c) ==
    /\ IF currentState.isNull THEN FALSE
       ELSE Len(suspended.nudges) + Len(currentState.pendingNudges) < MaxInFlight
    /\ \E nudge \in c.nudges : NudgeBegin(nudge)
    /\ UNCHANGED evaluator

DoNudgeResume(c) ==
    /\ \E i \in 1..Len(suspended.nudges), isSafe \in c.verdicts : NudgeResume(i, isSafe)
    /\ UNCHANGED evaluator

DoTickBegin(c) == exchangeCounter < c.maxTicks /\ TickBegin /\ UNCHANGED evaluator

DoTickResume(c) ==
    /\ ~currentState.isNull
    /\ \E beat \in Beats(currentState, c.lines, c.maxLines, c.silent) : TickResume(beat)
    /\ UNCHANGED evaluator

\* callers that do not wait for one call to return before making the next
NextAsync ==
    \/ DoStart(AsyncCallers)
    \/ DoNudgeBegin(AsyncCallers)
    \/ DoNudgeResume(AsyncCallers)
    \/ DoTickBegin(AsyncCallers)
    \/ DoTickResume(AsyncCallers)

SpecAsync == Init /\ [][NextAsync]_vars

\* onTelemetry, called while the evaluator has seen fewer than MaxTurnEnds lines
DoTelemetry(c) ==
    /\ \E event \in c.events :
          /\ event.kind = "turn.end" =>
                Len(evaluationEngine.recentDeltas) < MaxTurnEnds
          /\ OnTelemetry(event)
    /\ UNCHANGED narrative

\* consider, called while the log holds fewer than MaxSnapshots snapshots and
\* the evaluator has counted fewer than MaxEvalExchange exchanges
DoConsider(c) ==
    /\ Len(evaluationEngine.evaluationSnapshots) < MaxSnapshots
    /\ evaluationEngine.exchangeCounter < MaxEvalExchange
    /\ \E state \in c.states, lastLine \in c.lastLines, embed \in c.embeds :
          /\ ~lastLine.isNull => Len(evaluationEngine.rollingWindow) < MaxTurnEnds
          /\ Consider(state, lastLine, embed)
    /\ UNCHANGED narrative

\* clearSnapshots, called once the log holds MaxSnapshots snapshots
DoClearSnapshots ==
    /\ Len(evaluationEngine.evaluationSnapshots) >= MaxSnapshots
    /\ ClearSnapshots
    /\ UNCHANGED narrative

\* an EvaluationEngine fed by hand, as the acceptance tests feed it
NextEval ==
    \/ DoTelemetry(EvalCallers)
    \/ DoConsider(EvalCallers)
    \/ DoClearSnapshots

SpecEval == Init /\ [][NextEval]_vars

\* narrativeEngine.on('telemetry', event => evaluationEngine.onTelemetry(event)):
\* the events of a tick that the evaluator reads a field of, in the order tick
\* emits them (the metric ticks, then one turn.end per produced line)
RECURSIVE Feed(_, _)
Feed(ev, events) ==
    IF events = <<>> THEN ev ELSE Feed(onTelemetry(ev, Head(events)), Tail(events))

TickTelemetry(counter, producedLines) ==
    <<TurnStartEvent, MetricTickEvent("exchange_counter", counter)>>
    \o [i \in 1..Len(producedLines) |->
           TurnEndEvent([isNull |-> FALSE, text |-> producedLines[i].text,
                         deltas |-> producedLines[i].deltas])]

DoLoopStart(c) ==
    /\ currentState.isNull
    /\ \E seed \in c.seeds : StartEpisode(seed)
    /\ UNCHANGED evaluator

\* tick, once the recommendation for the tick before has been dealt with
DoLoopTick(c) ==
    /\ exchangeCounter < c.maxTicks
    /\ ~currentState.isNull
    /\ ret.op = "startEpisode" \/ recommendation.op = "consider"
    /\ \E beat \in Beats(currentState, c.lines, c.maxLines, c.silent) :
          /\ Tick(beat)
          /\ evaluationEngine' =
                 Feed(evaluationEngine, TickTelemetry(exchangeCounter + 1, Produced(beat)))
    /\ recommendation' = Returned("onTelemetry")

\* consider(evalState, tickResult.producedLines[0]) after the tick
DoLoopConsider(c) ==
    /\ ret.op = "tick"
    /\ recommendation.op = "onTelemetry"
    /\ \E embed \in c.embeds :
          Consider(EvaluationState(getCurrentAct(currentState),
                                   [i \in 1..Len(ret.producedLines) |->
                                       ret.producedLines[i].deltas],
                                   <<>>, TRUE),
                   IF ret.producedLines = <<>> THEN NoLine
                   ELSE [isNull |-> FALSE, text |-> ret.producedLines[1].text],
                   embed)
    /\ UNCHANGED narrative

\* applyNudge(recommendation.autoNudge), before the next tick
DoLoopApply(c) ==
    /\ ret.op = "tick"
    /\ recommendation.op = "consider"
    /\ recommendation.autoNudge # NoCandidate
    /\ \E isSafe \in c.verdicts :
          LET nudge == Nudge(recommendation.autoNudge.type, recommendation.autoNudge.intensity)
          IN  /\ ApplyNudge(nudge, isSafe)
              /\ evaluationEngine' =
                     IF NudgeAccepted(currentState, exchangeCounter, nudge, isSafe)
                     THEN onTelemetry(evaluationEngine, NudgeAppliedEvent(nudge.intensity))
                     ELSE evaluationEngine
    /\ UNCHANGED recommendation

\* the two engines wired as the demo wires them: every telemetry event of the
\* NarrativeEngine goes to the EvaluationEngine, consider is called after each
\* tick and its recommendation is applied
NextLoop ==
    \/ DoLoopStart(LoopCallers)
    \/ DoLoopTick(LoopCallers)
    \/ DoLoopConsider(LoopCallers)
    \/ DoLoopApply(LoopCallers)

SpecLoop == Init /\ [][NextLoop]_vars

\* an episode of ticks alone, long enough for the window of spoken lines to
\* fill and turn over
NextWindow ==
    \/ DoStart(WindowCallers)
    \/ DoTick(WindowCallers)

SpecWindow == Init /\ [][NextWindow]_vars

----------------------------------------------------------------------------
(* Properties                                                               *)

Dimensions(pair) == {pair.attraction, pair.trust, pair.tension, pair.comfort}

LoveGraph == currentState.episode.loveGraph

ActPath == currentState.episode.actPath

Scenes == currentState.episode.scenes

\* the number of major nudges accepted so far in the episode
RECURSIVE TotalMajor(_)
TotalMajor(scenes) ==
    IF scenes = <<>> THEN 0 ELSE Head(scenes).majorNudges + TotalMajor(Tail(scenes))

\* the gate as the act-gate table states it
TableAdmits(act, type) ==
    type \in actGates[act].allowedNudges /\ type \notin actGates[act].blockedNudges

\* C1: every dimension of every pair record of the love graph lies in [0,1],
\* for the spotlight pair and for the pairs the ripples touch
C1_DimensionsBounded ==
    ~currentState.isNull =>
        \A k \in DOMAIN LoveGraph : \A x \in Dimensions(LoveGraph[k]) : 0 <= x /\ x <= One

\* lines pushed the spotlight pair's tension to the upper clamp and its
\* attraction to the lower one while ripples moved another pair
C1_Witness ==
    /\ ~currentState.isNull
    /\ \E k \in DOMAIN LoveGraph :
          /\ LoveGraph[k].tension = One
          /\ LoveGraph[k].attraction = 0
          /\ \E j \in DOMAIN LoveGraph : j # k /\ LoveGraph[j] # BaselinePair

\* C2: a major nudge attempted fewer than 6 exchanges after the last accepted
\* major nudge of the episode returns false, so two consecutively accepted
\* major nudges lie at least 6 exchanges apart
C2_MajorGap ==
    [][(/\ ~currentState.isNull
        /\ ret'.op = "applyNudge"
        /\ ret'.nudge.intensity = "major"
        /\ TotalMajor(Scenes) > 0
        /\ exchangeCounter - currentState.lastMajorNudgeExchange < 6)
       => ~ret'.ok]_vars

\* a second major nudge has been accepted in the episode
C2_Witness ==
    /\ ~currentState.isNull
    /\ TotalMajor(Scenes) = 2
    /\ ret.op = "applyNudge" /\ ret.ok /\ ret.nudge.intensity = "major"

IsPrefix(s, t) == Len(s) <= Len(t) /\ \A i \in 1..Len(s) : s[i] = t[i]

\* C4: actPath starts as [1], every entry appended is one more than the entry
\* before it, entries are never removed within an episode, and the current
\* act never exceeds 5
C4_ActsSequential ==
    [][~currentState'.isNull =>
          /\ currentState'.episode.actPath[1] = 1
          /\ \A i \in 2..Len(currentState'.episode.actPath) :
                currentState'.episode.actPath[i] = currentState'.episode.actPath[i - 1] + 1
          /\ Last(currentState'.episode.actPath) <= 5
          /\ (~currentState.isNull /\ currentState.episode.id = currentState'.episode.id)
                => IsPrefix(ActPath, currentState'.episode.actPath)]_vars

\* the episode has walked through all five acts
C4_Witness == ~currentState.isNull /\ ActPath = <<1, 2, 3, 4, 5>>

\* C5: the transitions list a tick returns has at most one entry
C5_OneTransitionPerTick ==
    (ret.op = "tick" /\ ret.ok) => Len(ret.transitions) <= 1

\* the place of an event kind in the order the telemetry batch is said to have
KindRank(kind) ==
    CASE kind = "turn.start" -> 1
      [] kind = "turn.end" -> 2
      [] kind = "scene.transition" -> 3
      [] kind = "metric.tick" -> 4
      [] OTHER -> 0

\* C6: in a tick's telemetry batch no turn.end comes after a scene.transition
\* or a metric.tick, no scene.transition after a metric.tick, and turn.start
\* precedes them all
C6_BatchOrder ==
    (ret.op = "tick" /\ ret.ok) =>
        \A i \in 1..Len(ret.telemetryEvents) : \A j \in i..Len(ret.telemetryEvents) :
            (KindRank(ret.telemetryEvents[i].kind) > 0 /\ KindRank(ret.telemetryEvents[j].kind) > 0)
                => KindRank(ret.telemetryEvents[i].kind) <= KindRank(ret.telemetryEvents[j].kind)

RECURSIVE AddClamped(_, _)
AddClamped(pair, lines) ==
    IF lines = <<>> THEN pair
    ELSE LET d == Head(lines).deltas
             lim(x) == IF x < 0 THEN 0 ELSE IF x > One THEN One ELSE x
         IN  AddClamped([attraction |-> lim(pair.attraction + d.attraction),
                         trust |-> lim(pair.trust + d.trust),
                         tension |-> lim(pair.tension + d.tension),
                         comfort |-> lim(pair.comfort + d.comfort)],
                        Tail(lines))

\* the keys of the love graph that name the two spotlight characters
SpotlightRecords(cs) ==
    { k \in DOMAIN cs.episode.loveGraph : {k[1], k[2]} = {cs.spotlight[1], cs.spotlight[2]} }

\* C7: after the lines of a tick, every dimension of the spotlight pair's
\* record is the previous value plus each line's delta, clamped to [0,1] line
\* by line, in whichever order the two characters were listed
C7_SpotlightDeltaApplied ==
    [][(~currentState.isNull /\ ret'.op = "tick" /\ ret'.ok) =>
          \A k \in SpotlightRecords(currentState) :
              currentState'.episode.loveGraph[k] = AddClamped(LoveGraph[k], ret'.producedLines)]_vars

\* C8: a major nudge of a type the gate admits that passes safety is refused
\* only if a major nudge was accepted earlier in the episode
C8_FirstMajorAccepted ==
    (/\ ~currentState.isNull
     /\ ret.op = "applyNudge" /\ ~ret.ok
     /\ ret.nudge.intensity = "major" /\ ret.isSafe
     /\ TableAdmits(Last(ActPath), ret.nudge.type))
    => TotalMajor(Scenes) > 0

RecoveryMode(cs) == cadenceStatus(cs).recoveryMode

CarriesRecoveryBias(flags) == flags.bias_clarify /\ flags.bias_reassure > 0

\* C9: an accepted major nudge turns recovery mode on with two exchanges
\* left; each completed tick in recovery mode hands the comfort/clarify bias
\* to generation and takes one exchange off, so that recovery mode is still
\* on after the first completed tick and off after the second; a failed tick
\* and a minor or refused nudge leave recovery mode as it is
C9_RecoveryWindow ==
    [][(/\ ~currentState.isNull /\ ~currentState'.isNull
        /\ currentState.episode.id = currentState'.episode.id)
       =>
       /\ (ret'.op = "applyNudge" /\ ret'.ok /\ ret'.nudge.intensity = "major")
             => /\ RecoveryMode(currentState')
                /\ currentState'.recoveryBias.exchangesLeft = 2
       /\ (ret'.op = "applyNudge" /\ ~(ret'.ok /\ ret'.nudge.intensity = "major"))
             => currentState'.recoveryBias = currentState.recoveryBias
       /\ (ret'.op = "tick" /\ ret'.ok /\ RecoveryMode(currentState))
             => /\ CarriesRecoveryBias(agentState'.bias_flags)
                /\ RecoveryMode(currentState') = (currentState.recoveryBias.exchangesLeft = 2)
                /\ RecoveryMode(currentState')
                      => currentState'.recoveryBias.exchangesLeft = 1
       /\ (ret'.op = "tick" /\ ret'.ok /\ ~RecoveryMode(currentState))
             => ~RecoveryMode(currentState') /\ ~agentState'.bias_flags.bias_clarify
       /\ (ret'.op = "tick" /\ ~ret'.ok)
             => currentState'.recoveryBias = currentState.recoveryBias]_vars

\* the second completed tick after an accepted major nudge has just ended
\* recovery mode
C9_Witness ==
    /\ ~currentState.isNull
    /\ ret.op = "tick" /\ ret.ok
    /\ TotalMajor(Scenes) = 1
    /\ exchangeCounter = currentState.lastMajorNudgeExchange + 2
    /\ agentState.bias_flags.bias_clarify
    /\ ~RecoveryMode(currentState)

\* the mutual-spark condition as the claim states it
SparkCondition(cs) ==
    /\ \E k \in SpotlightRecords(cs) : cs.episode.loveGraph[k].attraction >= 4000
    /\ \/ cs.callbacks # <<>>
       \/ \E i \in 1..Len(cs.recentLines) : cs.recentLines[i].deltas.trust > 500

\* C10: the 1->2 transition is taken only when, at the moment of the check,
\* the spotlight pair's attraction is >= 0.4 and a callback is open or a line
\* of the window carried a trust delta > 0.05
C10_SparkNeedsBoth ==
    (ret.op = "tick" /\ ret.ok) =>
        \A i \in 1..Len(ret.checks) :
            ret.checks[i].taken = "mutual_spark" => SparkCondition(ret.checks[i].at)

\* a check in act 1 with attraction >= 0.4 but no open callback and no trust
\* line leaves the episode in act 1
C10_Witness ==
    /\ ret.op = "tick" /\ ret.ok
    /\ \E i \in 1..Len(ret.checks) :
          /\ ret.checks[i].taken = "none"
          /\ Last(ret.checks[i].at.episode.actPath) = 1
          /\ \E k \in SpotlightRecords(ret.checks[i].at) :
                ret.checks[i].at.episode.loveGraph[k].attraction >= 4000
          /\ ret.checks[i].at.callbacks = <<>>
    /\ ActPath = <<1>>

\* C11: a completed tick that starts in act 1 with the spotlight pair's
\* attraction at 0.45 and one callback token open reports a transition from
\* act 1 to act 2 with reason 'checkpoint'
C11_SparkScenario ==
    [][(/\ ~currentState.isNull
        /\ Last(ActPath) = 1
        /\ \E k \in SpotlightRecords(currentState) : LoveGraph[k].attraction = 4500
        /\ Len(currentState.callbacks) = 1
        /\ ret'.op = "tick" /\ ret'.ok)
       => \E i \in 1..Len(ret'.transitions) :
              /\ ret'.transitions[i].from.act = 1
              /\ ret'.transitions[i].to.act = 2
              /\ ret'.transitions[i].reason = "checkpoint"]_vars

\* C12: between operations the scene list holds exactly one open scene, which
\* is the current scene and the last of the list; every earlier scene is
\* closed with reason 'checkpoint'; scene indices are 0, 1, 2, ... in list order
C12_SceneList ==
    ~currentState.isNull =>
        LET n == Len(Scenes)
        IN  /\ n >= 1
            /\ currentState.currentScene = n
            /\ ~Scenes[n].ended /\ Scenes[n].endedReason = "none"
            /\ \A i \in 1..(n - 1) : Scenes[i].ended /\ Scenes[i].endedReason = "checkpoint"
            /\ \A i \in 1..n : Scenes[i].index = i - 1

\* two checkpoint transitions have closed two scenes and opened a third
C12_Witness ==
    /\ ~currentState.isNull
    /\ Len(Scenes) = 3
    /\ Scenes[1].ended /\ Scenes[2].ended /\ ~Scenes[3].ended
    /\ Scenes[3].index = 2

\* the last three lines of a window
LastThree(lines) == SubSeq(lines, Len(lines) - 2, Len(lines))

\* the plateau condition as the claim states it: average absolute delta of
\* the three lines below 0.02, or two of them with word-set similarity > 0.8
PlateauCondition(lines) ==
    \/ SumMagnitude(lines) < 12 * 200
    \/ \E i, j \in 1..3 : i < j /\ SimilarityAbove08(lines[i].text, lines[j].text)

\* C13: once three lines are in the window, the plateau counter after a line
\* is strictly greater than before it when the plateau condition holds of the
\* last three lines, and 0 when it fails, also on a line that advances the act
C13_PlateauCounter ==
    (ret.op = "tick" /\ ret.ok) =>
        \A i \in 1..Len(ret.checks) :
            Len(ret.checks[i].at.recentLines) >= 3 =>
                IF PlateauCondition(LastThree(ret.checks[i].at.recentLines))
                THEN ret.checks[i].plateauCounter > ret.checks[i].at.plateauCounter
                ELSE ret.checks[i].plateauCounter = 0

\* the predicate of the current act's checkpoint, as the transition table
\* states it, on the spotlight pair's record and the window of recent lines
CheckpointSatisfied(cs) ==
    LET act == Last(cs.episode.actPath)
        lines == cs.recentLines
        Pair(P(_)) == \E k \in SpotlightRecords(cs) : P(cs.episode.loveGraph[k])
        Line(P(_)) == \E i \in 1..Len(lines) : P(lines[i])
    IN  CASE act = 1 -> SparkCondition(cs)
          [] act = 2 -> /\ Pair(LAMBDA r : r.tension >= 6000)
                        /\ Line(LAMBDA l : \/ Includes(l.text, "disagree")
                                            \/ Includes(l.text, "wrong")
                                            \/ l.deltas.tension > 1000)
          [] act = 3 -> /\ Pair(LAMBDA r : r.trust >= 6000)
                        /\ Line(LAMBDA l : \/ Includes(l.text, "need")
                                            \/ Includes(l.text, "want")
                                            \/ Includes(l.text, "boundary"))
          [] act = 4 -> Line(LAMBDA l : \/ Includes(l.text, "choose")
                                        \/ IncludesWantUs(l.text)
                                        \/ Includes(l.text, "together"))
          [] OTHER -> FALSE

\* C14: a tick changes actPath, the scene list and the current scene only by
\* the transitions of lines whose check found the current act's checkpoint
\* predicate satisfied; with no such line they are unchanged, whatever the
\* plateau counter is or becomes
C14_PlateauNeverForces ==
    [][(/\ ~currentState.isNull /\ ~currentState'.isNull
        /\ currentState.episode.id = currentState'.episode.id
        /\ ret'.op = "tick")
       =>
       LET taken == { i \in 1..Len(ret'.checks) : ret'.checks[i].taken # "none" }
       IN  /\ \A i \in taken : CheckpointSatisfied(ret'.checks[i].at)
           /\ Len(currentState'.episode.actPath) = Len(ActPath) + Cardinality(taken)
           /\ Len(currentState'.episode.scenes) = Len(Scenes) + Cardinality(taken)
           /\ currentState'.currentScene = currentState.currentScene + Cardinality(taken)
           /\ taken = {} => /\ currentState'.episode.actPath = ActPath
                             /\ currentState'.episode.scenes = Scenes]_vars

\* a tick has taken the plateau counter to 3 without a transition
C14_Witness ==
    /\ ~currentState.isNull
    /\ ret.op = "tick" /\ ret.ok
    /\ ret.transitions = <<>>
    /\ currentState.plateauCounter >= 3
    /\ ~Scenes[currentState.currentScene].ended

\* C15: under every interleaving of applyNudge and tick calls, a major nudge
\* is accepted only when no major nudge was accepted before in the episode or
\* the last accepted one lies at least 6 exchanges back, so of two overlapping
\* major applyNudge calls at most one is accepted
C15_SerializedMajors ==
    [][(/\ ~currentState.isNull
        /\ Len(suspended'.nudges) < Len(suspended.nudges)
        /\ ret'.op = "applyNudge" /\ ret'.ok /\ ret'.nudge.intensity = "major"
        /\ TotalMajor(Scenes) > 0)
       => exchangeCounter - currentState.lastMajorNudgeExchange >= 6]_vars

\* C16: the pending queue a completed tick empties holds no nudge beyond
\* those its bias flags were built from
C16_NoNudgeDiscardedUnused ==
    [][(/\ suspended.tick.on /\ ~suspended'.tick.on
        /\ ret'.op = "tick" /\ ret'.ok
        /\ currentState'.pendingNudges = <<>>)
       => Len(currentState.pendingNudges) <= Len(suspended.tick.biasedBy)]_vars

\* C17: an applyNudge call that returns false, for want of an episode or by
\* the act gate, the major cadence or the safety verdict, leaves the pending
\* queue, the scenes' nudge counts, the last-major exchange index, the
\* recovery bias and the telemetry buffer as they were
C17_RejectedNudgeChangesNothing ==
    [][(ret'.op = "applyNudge" /\ ~ret'.ok) =>
          /\ telemetryBuffer' = telemetryBuffer
          /\ currentState'.isNull = currentState.isNull
          /\ ~currentState.isNull =>
                /\ currentState'.pendingNudges = currentState.pendingNudges
                /\ currentState'.episode.scenes = Scenes
                /\ currentState'.currentScene = currentState.currentScene
                /\ currentState'.lastMajorNudgeExchange = currentState.lastMajorNudgeExchange
                /\ currentState'.recoveryBias = currentState.recoveryBias]_vars

\* a major nudge the gate and the cadence admit was refused as unsafe, in an
\* episode that had accepted a major nudge before
C17_Witness ==
    /\ ~currentState.isNull
    /\ ret.op = "applyNudge" /\ ~ret.ok /\ ~ret.isSafe
    /\ TableAdmits(Last(ActPath), ret.nudge.type)
    /\ ret.nudge.intensity = "major"
    /\ exchangeCounter - currentState.lastMajorNudgeExchange >= 6
    /\ TotalMajor(Scenes) = 1

\* C18: a startEpisode call whose seed lists fewer than two characters fails
\* and leaves no active episode started by that call
C18_ShortSeedFails ==
    (ret.op = "startEpisode" /\ Len(ret.characters) < 2) =>
        /\ ret.threw
        /\ currentState.isNull \/ currentState.episode.id < nextEpisodeId - 1

\* the unordered pairs of the listed characters
UnorderedPairs(characters) ==
    { {characters[i], characters[j]} : i, j \in 1..Len(characters) } \ 
        { {characters[i]} : i \in 1..Len(characters) }

\* C19: right after a startEpisode call with n >= 2 characters, on a fresh
\* engine or over an earlier episode, the act path is [1], the scene list is
\* one open scene of index 0, the spotlight is the first two listed
\* characters in listed order, the graph holds exactly one baseline record
\* for each of the n(n-1)/2 unordered pairs, and the plateau counter, the
\* exchange counter, the pending nudges and the recovery bias are reset
C19_FreshEpisode ==
    (ret.op = "startEpisode" /\ Len(ret.characters) >= 2) =>
        LET n == Len(ret.characters)
        IN  /\ ~currentState.isNull
            /\ ActPath = <<1>>
            /\ Len(Scenes) = 1 /\ currentState.currentScene = 1
            /\ Scenes[1].act = 1 /\ Scenes[1].index = 0 /\ ~Scenes[1].ended
            /\ Scenes[1].majorNudges = 0 /\ Scenes[1].minorNudges = 0
            /\ currentState.spotlight = <<ret.characters[1], ret.characters[2]>>
            /\ 2 * Cardinality(DOMAIN LoveGraph) = n * (n - 1)
            /\ \A pr \in UnorderedPairs(ret.characters) :
                  \E k \in DOMAIN LoveGraph :
                      /\ {k[1], k[2]} = pr
                      /\ LoveGraph[k] = [attraction |-> 1000, trust |-> 1000,
                                          tension |-> 2000, comfort |-> 1000]
            /\ currentState.plateauCounter = 0
            /\ exchangeCounter = 0
            /\ currentState.pendingNudges = <<>>
            /\ ~currentState.recoveryBias.set
            /\ currentState.recentLines = <<>>

\* a second episode of three characters was started while the telemetry of a
\* nudge accepted in the first episode was still waiting to be flushed
C19_Witness ==
    /\ ret.op = "startEpisode" /\ Len(ret.characters) = 3
    /\ ~currentState.isNull /\ currentState.episode.id = 2
    /\ \E i \in 1..Len(telemetryBuffer) :
          telemetryBuffer[i].kind = "nudge.applied" /\ telemetryBuffer[i].episodeId = 1

\* C20: tick with no active episode raises an error and writes nothing: the
\* episode stays absent and the exchange counter, the telemetry buffer, the
\* episode id source and the agent state keep the values of a fresh engine,
\* which is all a later startEpisode reads
C20_TickWithoutEpisode ==
    [][(currentState.isNull /\ ret'.op = "tick") =>
          /\ ret'.threw /\ ~ret'.ok
          /\ currentState'.isNull
          /\ exchangeCounter' = exchangeCounter /\ exchangeCounter' = 0
          /\ telemetryBuffer' = telemetryBuffer /\ telemetryBuffer' = <<>>
          /\ nextEpisodeId' = 1
          /\ agentState' = NoAgentState]_vars

\* tick was called before any episode and raised
C20_Witness ==
    /\ currentState.isNull
    /\ ret.op = "tick" /\ ret.threw
    /\ exchangeCounter = 0 /\ telemetryBuffer = <<>>

\* C21: a getState call leaves the story state (episode, scene list,
\* spotlight with the order of its two characters, love graph, pending
\* nudges, counters) and the telemetry buffer exactly as they were
C21_GetStateIsPure ==
    [][ret'.op = "getState" =>
          /\ currentState' = currentState
          /\ exchangeCounter' = exchangeCounter
          /\ telemetryBuffer' = telemetryBuffer]_vars

----------------------------------------------------------------------------
(* Properties of the EvaluationEngine                                       *)

EvaluationLog == evaluationEngine.evaluationSnapshots

\* the base weights of acts 1 to 5, as the specification gives them
BaseWeights == <<7000, 9000, 12000, 16000, 18000>>

\* freshnessGain - lambda * coherenceCost, lambda = base weight * (0.6 + 1.2 * fragilityIndex)
WeightedScore(scores, act) ==
    LET lambda == (BaseWeights[act] * (6000 + (12 * scores.fragilityIndex) \div 10)) \div One
    IN  scores.freshnessGain - (lambda * scores.coherenceCost) \div One

\* C23: every candidate consider scored, as the log records it, has
\* finalScore = freshnessGain - lambda * coherenceCost, where lambda is the base
\* weight of the act (0.7, 0.9, 1.2, 1.6, 1.8) times (0.6 + 1.2 * fragilityIndex).
C23_FinalScore ==
    \A i \in DOMAIN EvaluationLog :
        EvaluationLog[i].scores.finalScore
            = WeightedScore(EvaluationLog[i].scores, EvaluationLog[i].sceneId)

\* the log holds candidates of a fragile scene of act 5 and of another act, one
\* of them with a coherence cost above 0.3 and a negative final score
C23_Witness ==
    /\ \E i \in DOMAIN EvaluationLog :
          /\ EvaluationLog[i].sceneId = 5
          /\ EvaluationLog[i].scores.fragilityIndex > 4000
          /\ EvaluationLog[i].scores.coherenceCost > 3000
          /\ EvaluationLog[i].scores.finalScore < 0
    /\ \E i \in DOMAIN EvaluationLog :
          /\ EvaluationLog[i].sceneId < 5
          /\ EvaluationLog[i].scores.finalScore > 0

\* C24: of two consider calls, one right after the other, in the same act and
\* with the same callbacks, one given the love-graph deltas of the fragile scene
\* and one those of the stable scene, the fragile call reports a strictly
\* higher fragilityIndex and a finalScore no higher than the stable call
C24_FragileScoresLower ==
    [][(/\ recommendation.op = "consider" /\ recommendation'.op = "consider"
        /\ ~recommendation.caught /\ ~recommendation'.caught
        /\ recommendation.state.structuralState = recommendation'.state.structuralState
        /\ recommendation.state.callbackActivity = recommendation'.state.callbackActivity
        /\ recommendation.state.loveGraphDeltas = Fragile
        /\ recommendation'.state.loveGraphDeltas = Stable)
       => /\ recommendation.scores.fragilityIndex > recommendation'.scores.fragilityIndex
          /\ recommendation.scores.finalScore <= recommendation'.scores.finalScore]_vars

InUnit(x) == 0 <= x /\ x <= One

\* C25: the three fragility components consider computed (high tension, low
\* trust, contradictions) and the fragility index lie in [0, 1]
C25_FragilityInUnit ==
    (recommendation.op = "consider" /\ ~recommendation.caught)
       => /\ InUnit(recommendation.fragility.highTension)
          /\ InUnit(recommendation.fragility.lowTrust)
          /\ InUnit(recommendation.fragility.recentContradictions)
          /\ InUnit(recommendation.fragility.total)
          /\ recommendation.scores.fragilityIndex = recommendation.fragility.total

\* C26: every candidate consider generated for an act, as the log records it,
\* and every nudge it recommends has a type on the allowed list of the
\* NarrativeEngine's gate of that act and not on its blocked list; a call
\* generates at most 5 candidates
C26_CandidatesPassGate ==
    /\ \A i \in DOMAIN EvaluationLog :
          /\ EvaluationLog[i].candidate.type \in actGates[EvaluationLog[i].sceneId].allowedNudges
          /\ EvaluationLog[i].candidate.type \notin actGates[EvaluationLog[i].sceneId].blockedNudges
    /\ recommendation.appended <= 5
    /\ recommendation.autoNudge # NoCandidate =>
          /\ recommendation.autoNudge.type
                \in actGates[recommendation.state.structuralState.act].allowedNudges
          /\ recommendation.autoNudge.type
                \notin actGates[recommendation.state.structuralState.act].blockedNudges

\* a call for act 2, whose list has six types, appended five snapshots to a
\* log that holds the chosen candidate of an earlier recommendation
C26_Witness ==
    /\ recommendation.op = "consider"
    /\ recommendation.state.structuralState.act = 2
    /\ recommendation.appended = 5
    /\ \E i \in DOMAIN EvaluationLog : EvaluationLog[i].chosen

\* C28: every result of consider carries at least one rationale, none of them
\* empty, and is either an abstention (abstain, no autoNudge) or a
\* recommendation (autoNudge, not abstain) with a finalScore of at least 0.3
C28_ResultShape ==
    recommendation.op = "consider"
       => /\ Len(recommendation.rationales) >= 1
          /\ \A i \in DOMAIN recommendation.rationales : recommendation.rationales[i] # ""
          /\ \/ recommendation.abstain /\ recommendation.autoNudge = NoCandidate
             \/ /\ ~recommendation.abstain
                /\ recommendation.autoNudge # NoCandidate
                /\ recommendation.scores.finalScore >= 3000

\* consider returned a recommendation whose only rationale is the default one
C28_Witness ==
    /\ recommendation.op = "consider"
    /\ recommendation.autoNudge # NoCandidate
    /\ recommendation.rationales = <<"Standard progression nudge">>

\* C29: consider returns (it never throws), and when an embedding call failed
\* while a candidate's novelty was computed the result is an abstention without
\* autoNudge, with a rationale
C29_EmbeddingFailureAbstains ==
    (recommendation.op = "consider" /\ recommendation.embeddingFailed)
       => /\ recommendation.abstain
          /\ recommendation.autoNudge = NoCandidate
          /\ Len(recommendation.rationales) >= 1

\* C30: a call other than clearSnapshots keeps every snapshot of the log where
\* it was, with its candidate and scores; consider appends one snapshot per
\* candidate in scoring order, and of the snapshots it appended exactly the one
\* of the recommended candidate is chosen, none when it abstains
C30_LogAppendOnly ==
    [][recommendation'.op # "clearSnapshots" =>
         LET old == EvaluationLog
             new == evaluationEngine'.evaluationSnapshots
             appended == Len(new) - Len(old)
             candidates == IF recommendation'.caught THEN <<>>
                           ELSE generateNudgeCandidates(recommendation'.state)
             chosen == { j \in 1..appended : new[Len(old) + j].chosen }
         IN  /\ appended >= 0
             /\ \A i \in DOMAIN old :
                   /\ new[i].candidate = old[i].candidate
                   /\ new[i].scores = old[i].scores
                   /\ new[i].chosen = old[i].chosen
             /\ recommendation'.op = "consider" =>
                   /\ appended = Len(candidates)
                   /\ \A j \in 1..appended : new[Len(old) + j].candidate = candidates[j]
                   /\ IF recommendation'.abstain THEN chosen = {}
                      ELSE \E j \in 1..appended :
                              /\ chosen = {j}
                              /\ new[Len(old) + j].candidate = recommendation'.autoNudge
                              /\ new[Len(old) + j].scores = recommendation'.scores
             /\ recommendation'.op # "consider" => appended = 0]_vars

\* a second consider recommended a candidate: the log holds the snapshots of
\* the call before it and those this call appended, one of them chosen
C30_Witness ==
    /\ recommendation.op = "consider"
    /\ recommendation.autoNudge # NoCandidate
    /\ recommendation.appended >= 3
    /\ Len(EvaluationLog) > recommendation.appended
    /\ Cardinality({ i \in DOMAIN EvaluationLog : EvaluationLog[i].chosen }) >= 1

\* C27: with the evaluator fed every telemetry event and consider called once
\* after each tick, a major nudge that consider recommends passes the cadence
\* check of applyNudge when it is submitted before the next tick
C27_RecommendedMajorPassesCadence ==
    [][(/\ ret.op = "tick" /\ ret'.op = "applyNudge"
        /\ recommendation.autoNudge.intensity = "major"
        /\ ret'.nudge.type = recommendation.autoNudge.type)
       => CadenceAllows(currentState, exchangeCounter, ret'.nudge)]_vars

----------------------------------------------------------------------------
(* Properties of the ripple, the gate, the telemetry batch and the counters *)

\* a dimension of a watching pair after the lines of a tick, if each line adds
\* a tenth of its delta in that dimension when the delta is positive and
\* nothing otherwise
RECURSIVE OnlyAdds(_, _, _)
OnlyAdds(x, lines, dim) ==
    IF lines = <<>> THEN x
    ELSE LET delta == Head(lines).deltas[dim]
         IN  OnlyAdds(Clamp(x + IF delta > 0 THEN Ripple(delta) ELSE 0), Tail(lines), dim)

\* C31: after the lines of a tick, the attraction of every pair other than the
\* spotlight pair has risen by a tenth of each line's attraction delta that is
\* positive and its comfort by a tenth of each comfort delta that is positive;
\* a negative attraction or comfort delta lowers neither
C31_CompersionOnlyAdds ==
    [][(~currentState.isNull /\ ret'.op = "tick" /\ ret'.ok) =>
          \A k \in DOMAIN LoveGraph \ SpotlightRecords(currentState) :
              /\ currentState'.episode.loveGraph[k].attraction =
                     OnlyAdds(LoveGraph[k].attraction, ret'.producedLines, "attraction")
              /\ currentState'.episode.loveGraph[k].comfort =
                     OnlyAdds(LoveGraph[k].comfort, ret'.producedLines, "comfort")]_vars

\* C32: applyNudge's act gate admits a nudge type in an act exactly when the
\* catalog's act restrictions permit the type there (raise_stakes and aside in
\* acts 2 to 4, the other five types in every act): no nudge of a type the
\* catalog excludes from the act is accepted, and a safe minor nudge of a type
\* the catalog permits in the act is accepted
C32_GateMatchesCatalog ==
    (~currentState.isNull /\ ret.op = "applyNudge") =>
        /\ Last(ActPath) \notin actRestrictions[ret.nudge.type] => ~ret.ok
        /\ (/\ Last(ActPath) \in actRestrictions[ret.nudge.type]
            /\ ret.nudge.intensity = "minor"
            /\ ret.isSafe) => ret.ok

\* C33: every event in the telemetry batch a tick returned carries the id of
\* the episode that was active during the tick, also when the episode was
\* started over an earlier one that left events waiting to be flushed
C33_BatchOfThisEpisode ==
    (~currentState.isNull /\ ret.op = "tick" /\ ret.ok) =>
        \A i \in 1..Len(ret.telemetryEvents) :
            ret.telemetryEvents[i].episodeId = currentState.episode.id

\* C34: the window of spoken lines never holds more than 16 lines, and after
\* a tick it is the window before the tick followed by the tick's produced
\* lines in production order, cut down to its last 16 entries
C34_WindowKeepsLatest ==
    [][(~currentState.isNull /\ ret'.op = "tick" /\ ret'.ok) =>
          /\ Len(currentState'.recentLines) <= 16
          /\ currentState'.recentLines =
                 LastN(currentState.recentLines \o ret'.producedLines, 16)]_vars

\* a full window that begins with the second speaker's line of a two-line
\* tick: the first speaker's line of that tick has been evicted
C34_Witness ==
    /\ ~currentState.isNull
    /\ ret.op = "tick" /\ ret.ok
    /\ Len(currentState.recentLines) = 16
    /\ currentState.recentLines[1].speaker = 2
    /\ currentState.recentLines[2].speaker = 1
    /\ Len(ret.producedLines) = 2

\* C35: an evaluator that has never been told of an applied major nudge is not
\* held to the recovery restriction: no consider call of it abstains because
\* the recovery period is active
C35_NoRecoveryWithoutMajor ==
    (/\ recommendation.op = "consider"
     /\ evaluationEngine.majorNudgeCount = 0
     /\ evaluationEngine.lastMajorNudgeTime = 0) =>
        ~(/\ recommendation.abstain
          /\ recommendation.rationales # <<>>
          /\ recommendation.rationales[1] =
                 "Recovery period active - comfort/clarify nudges preferred")

\* C36: between operations the act of the current scene is the last entry of
\* actPath, which is the act applyNudge gates on and getCurrentAct reports, and
\* the episode has as many scenes as actPath has entries
C36_ActBookkeepingAgrees ==
    ~currentState.isNull =>
        /\ Scenes[currentState.currentScene].act = getCurrentAct(currentState)
        /\ Len(Scenes) = Len(ActPath)

\* a nudge was put to the gate of act 3, two transitions into the episode
C36_Witness ==
    /\ ~currentState.isNull
    /\ ret.op = "applyNudge"
    /\ ActPath = <<1, 2, 3>>
    /\ Len(Scenes) = 3
    /\ Scenes[currentState.currentScene].act = 3

\* C37: the cadence status getState reports never shows more major nudges
\* used than the budget of one
C37_MajorBudgetRespected ==
    ~currentState.isNull =>
        cadenceStatus(currentState).majorBudgetUsed <= cadenceStatus(currentState).majorBudgetMax

\* C38: a tick that fails leaves the exchange counter, against which the
\* cooldown of major nudges is measured, where it was; a tick that completes
\* advances it by one and returns a batch with exactly one turn.start event
C38_FailedTickIsNoExchange ==
    [][(~currentState.isNull /\ ret'.op = "tick") =>
          IF ret'.ok
          THEN /\ exchangeCounter' = exchangeCounter + 1
               /\ Cardinality({ i \in 1..Len(ret'.telemetryEvents) :
                                   ret'.telemetryEvents[i].kind = "turn.start" }) = 1
          ELSE exchangeCounter' = exchangeCounter]_vars

====
